---- MODULE Spec2Model ----
(***************************************************************************)
(* Lodestarr: the aggregation and cache layer (server/api_native.rs,       *)
(* server/api_indexers.rs, db.rs, search.rs), the native result builder    *)
(* (indexer/result_builder.rs, indexer/executor.rs, indexer/definition.rs),*)
(* the search paths and the multi-step download (indexer/executor.rs), the *)
(* download proxy links (torznab.rs), the template engine                  *)
(* (indexer/template.rs), the shared locks of the handlers, the loading of *)
(* the definitions directory (indexer/manager.rs), the enabled switch of   *)
(* an indexer (config.rs, server/api_settings.rs), the error selectors of  *)
(* a search path, the field extractor (indexer/field_extractor.rs) and the *)
(* cache fingerprint of requests that carry a category filter.             *)
(*                                                                         *)
(* Encodings.  Option<T> is a sequence of length at most one: <<>> is None *)
(* and <<x>> is Some(x).  Time is counted in whole hours.  A JSON document *)
(* is a sequence of objects, an object a function from its keys to tagged  *)
(* values (<<"null">>, <<"num", n>>, <<"str", s>>).                        *)
(***************************************************************************)
EXTENDS Integers, Sequences, FiniteSets, TLC

VARIABLES
    definitions,  \* IndexerManager.definitions, in the order list_all_definitions yields them
    indexers,     \* Config.indexers, the proxied Torznab servers
    disabled_indexers, \* Config.disabled_indexers
    now,          \* Utc::now(), in hours
    cache,        \* table search_cache: key -> [results, expires_at]
    searchLogs,   \* table search_logs, oldest row first
    req,          \* the request being served: [endpoint, target, limit, key]
    futs,         \* the per-indexer futures of the fan-out, in stream order
    status,       \* per future: "pending", "running" or "done"
    out,          \* per future: Option of its output
    order,        \* buffer_unordered: the futures in completion order
    raw,          \* per future: Option of what its indexer search answered
    resp,         \* the response of the last served request
    lastStore,    \* history: per key, the last set_cached_results and what its caller returned
    definition,   \* the IndexerDefinition a SearchExecutor is searching
    phase,        \* SearchExecutor::search: "idle", "request", "done" or "failed"
    search_url,   \* the URL build_search_request_for_path built
    rows,         \* per row of the response, ctx.result after field extraction
    path_results, \* the Vec<TorrentResult> execute_search_path returned
    origin,       \* history: per emitted result, the index of its row
    search_def,   \* the IndexerDefinition of a SearchExecutor::search over its paths
    query_categories, \* SearchQuery.categories, Torznab IDs
    ctx_categories,   \* ctx.query.categories, what the templates submit
    paths_to_try, \* the search paths get_matching_paths kept, by position
    path_idx,     \* paths the loop of search has been through
    search_results, \* all_results of search
    path_log,     \* history: per tried path, how its request ended
    elapsed,      \* seconds since search was called
    search_state, \* "idle", "paths", "Ok" or "Err"
    dl_def,       \* the IndexerDefinition of a SearchExecutor::download
    dl_url,       \* the url argument of download
    dl_state,     \* download: "idle", "details", "final", "Ok" or "Err"
    dl_document,  \* history: Option of the details page download parsed
    download_url, \* Option of download_url, what the final GET asks for
    dl_gets,      \* history: the URLs download has sent a GET to
    dl_result,    \* what download returned
    feed_state,   \* the download proxy: "idle", "feed", "followed" or "called"
    feed_result,  \* the TorrentResult the feed has an item for
    feed_base,    \* the /dl route of the indexer the feed was asked of
    enclosure,    \* the url attribute of the item's enclosure, as in the XML
    dl_link,      \* Option of params.link of the last /dl request
    dl_response,  \* what proxy_download answered to it
    render_state, \* render_template: "idle" or "done"
    template_blocks, \* history: the template as written, blocks and pieces
    template,     \* the template render_template was given
    ctx_keywords, \* ctx.query.keywords
    rendered,     \* the string render_template returned, piece by piece
    pc,           \* per handler: 0 when idle, else the operation it is at
    locks,        \* per RwLock: the guards held and the requests queued
    disk,         \* the definition files of the active native directory
    entries,      \* per handler: the directory entries load_definitions has yet to load
    new_manager,  \* per handler: the definitions of the manager it is building
    rebuild,      \* history: Option of the load_definitions at work on the shared map
    observed,     \* history: per handler, what its list_all_definitions calls returned
    load_state,   \* load_definitions: "idle", "loop", "Ok" or "Err"
    load_path,    \* the directory load_definitions was given
    loaded,       \* the definitions and indexers maps of the manager, and count
    entry_idx,    \* directory entries the loop has been through
    load_errors,  \* history: the files logged as failed to load
    page_state,   \* the error check of a search path: "idle", "Ok" or "Err"
    page_errors,  \* definition.search.error
    page_body,    \* the response body: its elements and its result rows
    page_message, \* Option of the message the path failed with
    page_results, \* the results of the path
    extract_state, \* field extraction of a row: "idle", "text" or "done"
    row_fields,   \* definition.search.fields
    row_is_json,  \* whether the row is of a JSON response
    ctx_result,   \* ctx.result: per key, Option of the value set
    any_new,      \* any_new of the last text pass
    pass_log,     \* history: per text pass, the keys it added
    field_def,    \* the selector definition of a single extraction
    field_value,  \* Option of what the single extraction returned
    search_cache, \* table search_cache over the fingerprints of the requests with a category
    asked,        \* Option of the parameters of the last search request
    answered      \* Option of the parameters whose fan-out made the list that was answered

aggVars == <<now, cache, searchLogs, req, futs, status, out, order, raw, resp, lastStore>>

cfgVars == <<definitions, indexers, disabled_indexers>>

bldVars == <<definition, phase, search_url, rows, path_results, origin>>

srchVars == <<search_def, query_categories, ctx_categories, paths_to_try, path_idx,
              search_results, path_log, elapsed, search_state>>

\* the components beside the aggregator and the result builder
dlVars == <<dl_def, dl_url, dl_state, dl_document, download_url, dl_gets, dl_result>>

proxyVars == <<feed_state, feed_result, feed_base, enclosure, dl_link, dl_response>>

tplVars == <<render_state, template_blocks, template, ctx_keywords, rendered>>

lockVars == <<pc, locks, disk, entries, new_manager, rebuild, observed>>

loadVars == <<load_state, load_path, loaded, entry_idx, load_errors>>

\* the components that follow the shared locks
errVars == <<page_state, page_errors, page_body, page_message, page_results>>

fldVars == <<extract_state, row_fields, row_is_json, ctx_result, any_new, pass_log,
             field_def, field_value>>

keyVars == <<search_cache, asked, answered>>

moreVars == <<loadVars, errVars, fldVars, keyVars>>

extVars == <<srchVars, dlVars, proxyVars, tplVars, lockVars, moreVars>>

vars == <<cfgVars, aggVars, bldVars, extVars>>

----------------------------------------------------------------------------
(* Bounds of the model *)

MaxTime == 2          \* hours a behaviour of Spec lasts
MaxLogs == 2          \* logged searches in a behaviour of Spec
MaxFanoutLogs == 1    \* logged searches in a behaviour of SpecFanout
MaxRows == 2          \* rows of a response page in SpecBuilder
MaxCats == 2          \* categories of a search query in SpecSearch

(* Program constants *)

BUFFER_UNORDERED == 4      \* .buffer_unordered(4)
TTL_HOURS == 1             \* set_cached_results(.., 1)
DEFAULT_LIMIT == 100       \* params.limit.unwrap_or(100)
REQUEST_TIMEOUT_SECS == 30 \* Client::builder().timeout(Duration::from_secs(30))

----------------------------------------------------------------------------
(* Option<T> *)

None == <<>>
Some(x) == <<x>>
UnwrapOr(o, d) == IF o = None THEN d ELSE o[1]

Range(s) == {s[i] : i \in DOMAIN s}

\* a merge that stops at the first indexer that contributed nothing
RECURSIVE FlattenUntilEmpty(_)
FlattenUntilEmpty(ss) ==
    IF ss = <<>> \/ Head(ss) = <<>> THEN <<>> ELSE Head(ss) \o FlattenUntilEmpty(Tail(ss))

\* results_lists.into_iter().flatten().collect()
RECURSIVE Flatten(_)
Flatten(ss) == IF ss = <<>> THEN <<>> ELSE Head(ss) \o Flatten(Tail(ss))

Truncate(s, n) == IF Len(s) <= n THEN s ELSE SubSeq(s, 1, n)

----------------------------------------------------------------------------
(* Result<T, E>, errors carry no payload the handlers read *)

Ok(v) == <<"Ok", v>>
Err == <<"Err">>
IsOk(r) == r[1] = "Ok"

(* models::TorrentResult, the fields the aggregation layer reads or writes *)
TorrentResult(title, seeders, magnet, indexer) ==
    [title |-> title, seeders |-> seeders, magnet |-> magnet, indexer |-> indexer]

(* api_native::NativeSearchResult *)
NativeSearchResult(title, magnet, seeders, indexer, indexer_id) ==
    [title |-> title, magnet |-> magnet, seeders |-> seeders,
     indexer |-> indexer, indexer_id |-> indexer_id]

----------------------------------------------------------------------------
(* The registry and the configuration of the running server *)

is_enabled(name) == name \notin disabled_indexers

\* IndexerDefinition.name of a definition id
DefName(id) == "name-" \o id

\* one more record than the default limit
BigList ==
    [k \in 1..(DEFAULT_LIMIT + 1) |->
        TorrentResult("big", Some(k % 3), None, None)]

(* What a per-indexer search can answer: the sites are the environment.    *)
(* A native record leaves make_torrent_result tagged with its definition;  *)
(* a proxied record leaves TorznabClient::search untagged.                 *)
SearchOutcomes(id) ==
    CASE id = "n1" -> {Err, Ok(<<TorrentResult("A", Some(10), None, Some("n1")),
                                 TorrentResult("B", Some(50), Some("magnet:b"), Some("n1"))>>)}
      [] id = "n2" -> {Err, Ok(<<TorrentResult("C", None, None, Some("n2"))>>)}
      [] id = "n3" -> {Err, Ok(<<TorrentResult("D", Some(50), None, Some("n3"))>>)}
      [] id = "n4" -> {Ok(<<>>)}
      [] id = "n5" -> {Err}
      [] id = "p1" -> {Err, Ok(<<TorrentResult("E", Some(10), None, None),
                                 TorrentResult("F", Some(50), Some("magnet:f"), None)>>)}
      [] id = "p3" -> {Err, Ok(BigList)}
      [] OTHER -> {Err}

----------------------------------------------------------------------------
(* Sorting: results.sort_by(|a, b| b.seeders.unwrap_or(0).cmp(&a.seeders.unwrap_or(0))) *)

SeedKey(r) == UnwrapOr(r.seeders, 0)

Max(S) == CHOOSE x \in S : \A y \in S : y <= x

(* slice::sort_by is stable, so the sorted list is, for the keys in         *)
(* decreasing order, the records of that key in their original order.       *)
RECURSIVE SortDesc(_, _)
SortDesc(s, keys) ==
    IF keys = {} THEN <<>>
    ELSE LET k == Max(keys)
         IN SelectSeq(s, LAMBDA r : SeedKey(r) = k) \o SortDesc(s, keys \ {k})

\* a sort that ranks a missing seeders value above every number
sort_results_none_first(results) ==
    SelectSeq(results, LAMBDA r : r.seeders = None)
    \o SortDesc(SelectSeq(results, LAMBDA r : r.seeders # None),
                {SeedKey(results[i]) : i \in DOMAIN results})

sort_results(results) == SortDesc(results, {SeedKey(results[i]) : i \in DOMAIN results})

----------------------------------------------------------------------------
(* serde_json: to_string and from_str of the two cached list types *)

JNull == <<"null">>
JNum(n) == <<"num", n>>
JStr(s) == <<"str", s>>
JOptNum(o) == IF o = None THEN JNull ELSE JNum(o[1])
JOptStr(o) == IF o = None THEN JNull ELSE JStr(o[1])
FromJOpt(j) == IF j = JNull THEN None ELSE Some(j[2])

\* #[derive(Serialize)] TorrentResult: renamed keys, None skipped where
\* skip_serializing_if = "Option::is_none"
SerializeTorrentResult(r) ==
    LET keys == {"Title", "Seeders"}
                \cup (IF r.magnet = None THEN {} ELSE {"Magnet"})
                \cup (IF r.indexer = None THEN {} ELSE {"Indexer"})
    IN [k \in keys |->
          CASE k = "Title" -> JStr(r.title)
            [] k = "Seeders" -> JOptNum(r.seeders)
            [] k = "Magnet" -> JOptStr(r.magnet)
            [] k = "Indexer" -> JOptStr(r.indexer)]

\* #[derive(Deserialize)] TorrentResult: a missing Option key is None
DeserializeTorrentResult(j) ==
    TorrentResult(j["Title"][2],
                  FromJOpt(j["Seeders"]),
                  IF "Magnet" \in DOMAIN j THEN FromJOpt(j["Magnet"]) ELSE None,
                  IF "Indexer" \in DOMAIN j THEN FromJOpt(j["Indexer"]) ELSE None)

\* #[derive(Serialize, Deserialize)] NativeSearchResult: every field written
SerializeNativeSearchResult(r) ==
    [k \in {"title", "magnet", "seeders", "indexer", "indexer_id"} |->
          CASE k = "title" -> JStr(r.title)
            [] k = "magnet" -> JOptStr(r.magnet)
            [] k = "seeders" -> JOptNum(r.seeders)
            [] k = "indexer" -> JStr(r.indexer)
            [] k = "indexer_id" -> JStr(r.indexer_id)]

DeserializeNativeSearchResult(j) ==
    NativeSearchResult(j["title"][2], FromJOpt(j["magnet"]), FromJOpt(j["seeders"]),
                       j["indexer"][2], j["indexer_id"][2])

to_string_torrent(list) == [i \in DOMAIN list |-> SerializeTorrentResult(list[i])]
from_str_torrent(doc) == [i \in DOMAIN doc |-> DeserializeTorrentResult(doc[i])]
to_string_native(list) == [i \in DOMAIN list |-> SerializeNativeSearchResult(list[i])]
from_str_native(doc) == [i \in DOMAIN doc |-> DeserializeNativeSearchResult(doc[i])]

----------------------------------------------------------------------------
(* db.rs: the search_cache table *)

\* a lookup that still answers in the hour the entry expires
get_cached_results_inclusive(tbl, key, t) ==
    IF tbl[key] # None /\ tbl[key][1].expires_at >= t
    THEN Some(tbl[key][1].results)
    ELSE None

\* SELECT results FROM search_cache WHERE key = ?1 AND expires_at > ?2
get_cached_results(tbl, key, t) ==
    IF tbl[key] # None /\ tbl[key][1].expires_at > t
    THEN Some(tbl[key][1].results)
    ELSE None

\* a store that takes the time to live for days
set_cached_results_days(tbl, key, results, ttl_hours, t) ==
    [tbl EXCEPT ![key] = Some([results |-> results, expires_at |-> t + 24 * ttl_hours])]

\* INSERT OR REPLACE INTO search_cache (key, results, expires_at)
set_cached_results(tbl, key, results, ttl_hours, t) ==
    [tbl EXCEPT ![key] = Some([results |-> results, expires_at |-> t + ttl_hours])]

\* DELETE FROM search_cache WHERE expires_at < ?1
cleanup_cache(tbl, t) ==
    [k \in DOMAIN tbl |->
        IF tbl[k] # None /\ tbl[k][1].expires_at < t THEN None ELSE tbl[k]]

\* DELETE FROM search_cache
clear_all_cache(tbl) == [k \in DOMAIN tbl |-> None]

\* INSERT INTO search_logs (query, indexer, timestamp, result_count, duration_ms)
log_search(logs, query, indexer, result_count) ==
    Append(logs, [query |-> query, indexer |-> indexer, result_count |-> result_count])

----------------------------------------------------------------------------
(* The requests the model serves *)

Queries == {"ubuntu"}
NativeTargets == {None, Some("n1")}      \* NativeSearchParams.indexer
ApiTargets == {None, Some("p1")}         \* SearchApiParams.indexer
Limits == {None, Some(0), Some(2)}       \* TorznabParams.limit

\* format!("native:{}:{}:{}", target, params.q, params.cat.as_deref().unwrap_or(""))
cache_key(kind, target, q, cat) ==
    kind \o ":" \o target \o ":" \o q \o ":" \o UnwrapOr(cat, "")

CacheKeys ==
    {cache_key("native", UnwrapOr(t, "all"), q, None) : t \in NativeTargets, q \in Queries}
    \cup {cache_key("proxied", UnwrapOr(t, "all"), q, None) : t \in ApiTargets, q \in Queries}

NoReq == [endpoint |-> "none", phase |-> "done", q |-> "", target |-> "",
          limit |-> None, key |-> ""]

NoResp == [endpoint |-> "none", hit |-> FALSE, key |-> "", at |-> 0, lists |-> <<>>,
           all_results |-> <<>>, body |-> <<>>]

----------------------------------------------------------------------------
(* The dispatchers *)

\* futures::stream::iter(futures).buffer_unordered(n): the first poll starts n futures
buffer_unordered_start(len, n) ==
    [i \in 1..len |-> IF i <= n THEN "running" ELSE "pending"]

\* buffer_unordered: a completed future leaves the queue and the next future
\* of the stream, if any, is started
buffer_unordered_next(st, i) ==
    LET done == [st EXCEPT ![i] = "done"]
        pending == {j \in DOMAIN st : done[j] = "pending"}
    IN IF pending = {} THEN done
       ELSE [done EXCEPT ![CHOOSE j \in pending : \A k \in pending : j <= k] = "running"]

\* futures::future::join_all(futures): every future is polled from the start
join_all_start(len) == [i \in 1..len |-> "running"]

InFlight == Cardinality({i \in DOMAIN status : status[i] = "running"})

AllDone == \A i \in DOMAIN status : status[i] = "done"

\* for r in &mut res { r.indexer = Some(n.clone()) }
Tag(list, n) == [i \in DOMAIN list |-> [list[i] EXCEPT !.indexer = Some(n)]]

\* search_native: Ok(results) => Some((id, name, results)), Err(e) => None
native_future(id, r) ==
    IF IsOk(r) THEN Some(<<id, DefName(id), r[2]>>) ELSE None

\* search_api: Ok(res) => Ok(tagged), Err(_) => Ok(vec![])
api_future(name, r) ==
    IF IsOk(r) THEN Ok(Tag(r[2], name)) ELSE Ok(<<>>)

\* torznab_all_indexers: Ok(results) => tagged, Err(e) => vec![]
all_future(name, r) ==
    IF IsOk(r) THEN Tag(r[2], name) ELSE <<>>

FutureOutput(endpoint, id, r) ==
    CASE endpoint = "native" -> native_future(id, r)
      [] endpoint = "api" -> api_future(id, r)
      [] endpoint = "torznab_all" -> all_future(id, r)

\* search_native: NativeSearchResult { title, magnet, seeders, indexer, indexer_id, .. }
ToNative(item) ==
    LET items == item[3]
    IN [i \in DOMAIN items |->
          NativeSearchResult(items[i].title, items[i].magnet, items[i].seeders,
                             item[2], item[1])]

StartFanout(r, fs, st) ==
    /\ req' = r
    /\ futs' = fs
    /\ status' = st
    /\ out' = [i \in DOMAIN fs |-> None]
    /\ raw' = [i \in DOMAIN fs |-> None]
    /\ order' = <<>>
    /\ resp' = NoResp

NoFanout ==
    /\ req' = NoReq
    /\ futs' = <<>>
    /\ status' = <<>>
    /\ out' = <<>>
    /\ raw' = <<>>
    /\ order' = <<>>

----------------------------------------------------------------------------
(* GET /api/native/search, up to the fan-out *)
search_native(indexer, q) ==
    LET target == UnwrapOr(indexer, "all")
        key == cache_key("native", target, q, None)
        cached == get_cached_results(cache, key, now)
    IN /\ req.phase = "done"
       /\ IF cached # None
          THEN LET results == from_str_native(cached[1])
               IN /\ searchLogs' = log_search(searchLogs, q, target, Len(results))
                  /\ resp' = [endpoint |-> "native", hit |-> TRUE, key |-> key, at |-> now,
                              lists |-> <<>>, all_results |-> results, body |-> results]
                  /\ NoFanout
          ELSE IF definitions = <<>>
          THEN /\ resp' = [NoResp EXCEPT !.endpoint = "native", !.key = key]
               /\ NoFanout
               /\ UNCHANGED searchLogs
          ELSE LET selected == IF indexer # None
                               THEN SelectSeq(definitions, LAMBDA d : d = indexer[1])
                               ELSE definitions
                   indexers_to_search == SelectSeq(selected, is_enabled)
               IN /\ StartFanout([endpoint |-> "native", phase |-> "fanout", q |-> q,
                                  target |-> target, limit |-> None, key |-> key],
                                 indexers_to_search,
                                 buffer_unordered_start(Len(indexers_to_search),
                                                        BUFFER_UNORDERED))
                  /\ UNCHANGED searchLogs
       /\ UNCHANGED <<cfgVars, bldVars, extVars, now, cache, lastStore>>

(* GET /api/native/search, after the fan-out: merge, sort, log, cache, answer *)
search_native_finish ==
    /\ req.endpoint = "native" /\ req.phase = "fanout" /\ AllDone
    /\ LET results == [k \in DOMAIN order |-> out[order[k]][1]]
           lists == [k \in DOMAIN order |->
                        IF results[k] = None THEN <<>> ELSE ToNative(results[k][1])]
           all_results == sort_results(Flatten(lists))
       IN /\ searchLogs' = log_search(searchLogs, req.q, req.target, Len(all_results))
          /\ IF all_results # <<>>
             THEN /\ cache' = set_cached_results(cache, req.key,
                                                 to_string_native(all_results), TTL_HOURS, now)
                  /\ lastStore' = [lastStore EXCEPT ![req.key] =
                                      Some([kind |-> "native", list |-> all_results,
                                            at |-> now, returned |-> all_results])]
             ELSE UNCHANGED <<cache, lastStore>>
          /\ resp' = [endpoint |-> "native", hit |-> FALSE, key |-> req.key, at |-> now,
                      lists |-> lists, all_results |-> all_results, body |-> all_results]
    /\ req' = [req EXCEPT !.phase = "done"]
    /\ UNCHANGED <<cfgVars, bldVars, extVars, now, futs, status, out, raw, order>>

(* GET /api/v2.0/search, up to the fan-out *)
search_api(indexer, q) ==
    LET target == UnwrapOr(indexer, "all")
        key == cache_key("proxied", target, q, None)
        cached == get_cached_results(cache, key, now)
    IN /\ req.phase = "done"
       /\ IF cached # None
          THEN LET results == from_str_torrent(cached[1])
               IN /\ searchLogs' = log_search(searchLogs, q, target, Len(results))
                  /\ resp' = [endpoint |-> "api", hit |-> TRUE, key |-> key, at |-> now,
                              lists |-> <<>>, all_results |-> results, body |-> results]
                  /\ NoFanout
          ELSE LET clients == IF target = "all"
                              THEN SelectSeq(indexers, is_enabled)
                              ELSE SelectSeq(indexers,
                                             LAMBDA n : n = target /\ is_enabled(n))
               IN /\ StartFanout([endpoint |-> "api", phase |-> "fanout", q |-> q,
                                  target |-> target, limit |-> Some(DEFAULT_LIMIT),
                                  key |-> key],
                                 clients,
                                 buffer_unordered_start(Len(clients), BUFFER_UNORDERED))
                  /\ UNCHANGED searchLogs
       /\ UNCHANGED <<cfgVars, bldVars, extVars, now, cache, lastStore>>

(* GET /api/v2.0/search, after the fan-out: merge, log, cache, sort, answer *)
search_api_finish ==
    /\ req.endpoint = "api" /\ req.phase = "fanout" /\ AllDone
    /\ LET results_lists == [k \in DOMAIN order |-> out[order[k]][1]]
           lists == [k \in DOMAIN order |->
                        IF IsOk(results_lists[k]) THEN results_lists[k][2] ELSE <<>>]
           all_results == Flatten(lists)
           sorted == sort_results(all_results)
       IN /\ searchLogs' = log_search(searchLogs, req.q, req.target, Len(all_results))
          /\ IF all_results # <<>>
             THEN /\ cache' = set_cached_results(cache, req.key,
                                                 to_string_torrent(all_results), TTL_HOURS, now)
                  /\ lastStore' = [lastStore EXCEPT ![req.key] =
                                      Some([kind |-> "proxied", list |-> all_results,
                                            at |-> now, returned |-> sorted])]
             ELSE UNCHANGED <<cache, lastStore>>
          /\ resp' = [endpoint |-> "api", hit |-> FALSE, key |-> req.key, at |-> now,
                      lists |-> lists, all_results |-> sorted, body |-> sorted]
    /\ req' = [req EXCEPT !.phase = "done"]
    /\ UNCHANGED <<cfgVars, bldVars, extVars, now, futs, status, out, raw, order>>

(* GET /api/v2.0/indexers/all/results/torznab?t=search, up to the fan-out *)
torznab_all_indexers(q, limit) ==
    /\ req.phase = "done"
    /\ LET futures == SelectSeq(definitions, is_enabled)
                      \o SelectSeq(indexers, is_enabled)
       IN StartFanout([endpoint |-> "torznab_all", phase |-> "fanout", q |-> q,
                       target |-> "all", limit |-> limit, key |-> ""],
                      futures, join_all_start(Len(futures)))
    /\ UNCHANGED <<cfgVars, bldVars, extVars, now, cache, searchLogs, lastStore>>

(* the aggregate Torznab search, after the fan-out: merge, sort, truncate, answer *)
torznab_all_indexers_finish ==
    /\ req.endpoint = "torznab_all" /\ req.phase = "fanout" /\ AllDone
    /\ LET results_lists == [i \in DOMAIN futs |-> out[i][1]]
           all_results == sort_results(Flatten(results_lists))
           limit == UnwrapOr(req.limit, DEFAULT_LIMIT)
       IN resp' = [endpoint |-> "torznab_all", hit |-> FALSE, key |-> "", at |-> now,
                   lists |-> results_lists, all_results |-> all_results,
                   body |-> Truncate(all_results, limit)]
    /\ req' = [req EXCEPT !.phase = "done"]
    /\ UNCHANGED <<cfgVars, bldVars, extVars, now, cache, searchLogs, lastStore, futs, status, out, raw, order>>

(* One per-indexer search of the fan-out comes back.  buffer_unordered     *)
(* yields the outputs in completion order; join_all yields them in the     *)
(* order of the futures, and its completion order is history, recorded     *)
(* where a property reads it                                                *)
Completed(i, recorded) ==
    /\ req.phase = "fanout"
    /\ status[i] = "running"
    /\ \E r \in SearchOutcomes(futs[i]) :
          /\ raw' = [raw EXCEPT ![i] = Some(r)]
          /\ out' = [out EXCEPT ![i] = Some(FutureOutput(req.endpoint, futs[i], r))]
    /\ status' = IF req.endpoint = "torznab_all"
                 THEN [status EXCEPT ![i] = "done"]
                 ELSE buffer_unordered_next(status, i)
    /\ order' = IF recorded THEN Append(order, i) ELSE order
    /\ UNCHANGED <<cfgVars, bldVars, extVars, now, cache, searchLogs, lastStore, req, futs, resp>>

Complete(i) == Completed(i, req.endpoint # "torznab_all")

\* a search of the aggregate Torznab fan-out comes back, its turn recorded
join_all_complete(i) == req.endpoint = "torznab_all" /\ Completed(i, TRUE)

\* a search of a buffer_unordered fan-out comes back
buffer_unordered_complete(i) == req.endpoint # "torznab_all" /\ Completed(i, TRUE)

(* POST /api/settings/cache/clear *)
clear_cache_api ==
    /\ \E k \in CacheKeys : cache[k] # None
    /\ cache' = clear_all_cache(cache)
    /\ lastStore' = [k \in CacheKeys |-> None]
    /\ UNCHANGED <<cfgVars, bldVars, extVars, now, searchLogs, req, futs, status, out, order, raw, resp>>

(* Server start: the expired-entry sweep *)
start_server ==
    /\ req.phase = "done"
    /\ cache' = cleanup_cache(cache, now)
    /\ resp' = NoResp
    /\ NoFanout
    /\ UNCHANGED <<cfgVars, bldVars, extVars, now, searchLogs, lastStore>>

(* An hour passes *)
Tick ==
    /\ now < MaxTime
    /\ now' = now + 1
    /\ UNCHANGED <<cfgVars, bldVars, extVars, cache, searchLogs, req, futs, status, out, order, raw, resp, lastStore>>

----------------------------------------------------------------------------
(* Strings of the result builder.  A string is the sequence of its lexical *)
(* pieces: for a URL a scheme with its colon, "//", a host, "/" separators,*)
(* path segments and the pieces of a query; the empty string is <<>>.      *)

SpecialSchemes == {"http:", "https:", "ftp:"}
Schemes == SpecialSchemes \cup {"magnet:"}
Hosts == {"x.test", "cdn.test", "api.test"}
QueryStarts == {"?id=1", "?cat=1", "?do=search", "?q=ubuntu", "?xt=urn:btih:abc"}
QueryPieces == QueryStarts \cup {"&q=ubuntu"}

\* str::starts_with("http://") || str::starts_with("https://")
starts_with_http(s) == Len(s) >= 2 /\ s[1] \in {"http:", "https:"} /\ s[2] = "//"
starts_with_magnet(s) == Len(s) >= 1 /\ s[1] = "magnet:"
starts_with_slash(s) == Len(s) >= 1 /\ s[1] \in {"/", "//"}
starts_with_question(s) == Len(s) >= 1 /\ s[1] \in QueryStarts
contains_question(s) == \E i \in DOMAIN s : s[i] \in QueryStarts

\* str::trim_end_matches('/')
RECURSIVE trim_end_matches_slash(_)
trim_end_matches_slash(s) ==
    IF s # <<>> /\ s[Len(s)] \in {"/", "//"}
    THEN trim_end_matches_slash(SubSeq(s, 1, Len(s) - 1))
    ELSE s

\* str::to_lowercase
to_lowercase(s) == [i \in DOMAIN s |-> IF s[i] = "ABC" THEN "abc" ELSE s[i]]

\* urlencoding::encode
urlencoding_encode(s) == [i \in DOMAIN s |-> IF s[i] = " " THEN "%20" ELSE s[i]]

(* url::Url::parse: an absolute URL, or an error.  A URL of a special      *)
(* scheme needs a host and is given the path "/" when it has none.         *)
Url_parse(s) ==
    IF Len(s) >= 3 /\ s[1] \in SpecialSchemes /\ s[2] = "//" /\ s[3] \in Hosts
    THEN LET rest == SubSeq(s, 4, Len(s))
         IN  Ok(SubSeq(s, 1, 3)
                \o (IF rest = <<>> \/ rest[1] # "/" THEN <<"/">> ELSE <<>>)
                \o rest)
    ELSE IF Len(s) >= 1 /\ s[1] \in Schemes \ SpecialSchemes
    THEN Ok(s)
    ELSE Err

RECURSIVE strip_query(_)
strip_query(u) ==
    IF u # <<>> /\ u[Len(u)] \in QueryPieces
    THEN strip_query(SubSeq(u, 1, Len(u) - 1))
    ELSE u

\* the URL up to and including the last "/" of its path
directory(u) ==
    LET p == strip_query(u)
        last == CHOOSE i \in DOMAIN p :
                    /\ p[i] = "/"
                    /\ \A j \in DOMAIN p : p[j] = "/" => j <= i
    IN  SubSeq(p, 1, last)

(* url::Url::join: the reference resolved against a parsed base *)
Url_join(base, reference) ==
    IF reference = <<>> THEN Ok(base)
    ELSE IF reference[1] \in Schemes THEN Url_parse(reference)
    ELSE IF base[1] \notin SpecialSchemes THEN Err
    ELSE IF reference[1] = "//" THEN Url_parse(<<base[1]>> \o reference)
    ELSE IF reference[1] = "/" THEN Ok(SubSeq(base, 1, 3) \o reference)
    ELSE IF reference[1] \in QueryStarts THEN Ok(strip_query(base) \o reference)
    ELSE Ok(directory(base) \o reference)

\* the '/'-aware concatenation make_absolute_url falls back to
concat_with_base(url, base_url) ==
    IF starts_with_slash(url)
    THEN trim_end_matches_slash(base_url) \o url
    ELSE trim_end_matches_slash(base_url) \o <<"/">> \o url

\* a resolution that only ever concatenates
make_absolute_url_concat(url, base_url) ==
    IF starts_with_http(url) \/ starts_with_magnet(url)
    THEN url
    ELSE concat_with_base(url, base_url)

\* Url::parse(base_url) and then base.join(url)
parse_and_join(url, base_url) ==
    LET base == Url_parse(base_url)
    IN  IF IsOk(base) THEN Url_join(base[2], url) ELSE Err

\* the joined URL, or the concatenation when the url crate gave none
resolved_or_concat(resolved, url, base_url) ==
    IF IsOk(resolved) THEN resolved[2] ELSE concat_with_base(url, base_url)

(* result_builder::make_absolute_url *)
make_absolute_url(url, base_url) ==
    IF starts_with_http(url) \/ starts_with_magnet(url)
    THEN url
    ELSE resolved_or_concat(parse_and_join(url, base_url), url, base_url)

----------------------------------------------------------------------------
(* Category mapping (indexer/def.rs) *)

\* the match arms of resolve_torznab_category_name
TorznabCategoryNames == {
    <<"Console", 1000>>, <<"Console/NDS", 1010>>, <<"Console/PSP", 1020>>,
    <<"Console/Wii", 1030>>, <<"Console/XBox", 1040>>,
    <<"Console/XBox 360", 1050>>, <<"Console/Wiiware", 1060>>,
    <<"Console/XBox 360 DLC", 1070>>, <<"Console/PS3", 1080>>,
    <<"Console/Other", 1090>>, <<"Console/3DS", 1110>>,
    <<"Console/PS Vita", 1120>>, <<"Console/WiiU", 1130>>,
    <<"Console/XBox One", 1140>>, <<"Console/PS4", 1180>>,
    <<"Movies", 2000>>, <<"Movies/Foreign", 2010>>, <<"Movies/Other", 2020>>,
    <<"Movies/SD", 2030>>, <<"Movies/HD", 2040>>, <<"Movies/UHD", 2045>>,
    <<"Movies/BluRay", 2050>>, <<"Movies/3D", 2060>>, <<"Movies/DVD", 2070>>,
    <<"Movies/WEB-DL", 2080>>, <<"Audio", 3000>>, <<"Audio/MP3", 3010>>,
    <<"Audio/Video", 3020>>, <<"Audio/Audiobook", 3030>>,
    <<"Audio/Lossless", 3040>>, <<"Audio/Other", 3050>>,
    <<"Audio/Foreign", 3060>>, <<"PC", 4000>>, <<"PC/0day", 4010>>,
    <<"PC/ISO", 4020>>, <<"PC/Mac", 4030>>, <<"PC/Mobile-Other", 4040>>,
    <<"PC/Games", 4050>>, <<"PC/Mobile-iOS", 4060>>,
    <<"PC/Mobile-Android", 4070>>, <<"TV", 5000>>, <<"TV/WEB-DL", 5010>>,
    <<"TV/Foreign", 5020>>, <<"TV/SD", 5030>>, <<"TV/HD", 5040>>,
    <<"TV/UHD", 5045>>, <<"TV/Other", 5050>>, <<"TV/Sport", 5060>>,
    <<"TV/Anime", 5070>>, <<"TV/Documentary", 5080>>, <<"XXX", 6000>>,
    <<"XXX/DVD", 6010>>, <<"XXX/WMV", 6020>>, <<"XXX/XviD", 6030>>,
    <<"XXX/x264", 6040>>, <<"XXX/UHD", 6045>>, <<"XXX/Pack", 6050>>,
    <<"XXX/ImageSet", 6060>>, <<"XXX/Other", 6070>>, <<"XXX/SD", 6080>>,
    <<"XXX/WEB-DL", 6090>>, <<"Books", 7000>>, <<"Books/Mags", 7010>>,
    <<"Books/EBook", 7020>>, <<"Books/Comics", 7030>>,
    <<"Books/Technical", 7040>>, <<"Books/Other", 7050>>,
    <<"Books/Foreign", 7060>>, <<"Other", 8000>>, <<"Other/Misc", 8010>>,
    <<"Other/Hashed", 8020>>
    }

resolve_torznab_category_name(name) ==
    IF \E p \in TorznabCategoryNames : p[1] = name
    THEN Some((CHOOSE p \in TorznabCategoryNames : p[1] = name)[2])
    ELSE None

\* StringOrInt and its Display
StringOrInt_String(s) == <<"String", s>>
StringOrInt_Int(i) == <<"Int", i>>
i64_to_string(i) ==
    CASE i = 7 -> "7"
      [] i = 9 -> "9"
      [] i = 42 -> "42"
      [] i = 5030 -> "5030"
      [] OTHER -> "0"
StringOrInt_to_string(id) == IF id[1] = "Int" THEN i64_to_string(id[2]) ELSE id[2]

CategoryMapping(id, cat) == [id |-> id, cat |-> cat]

\* the position of the first mapping of the tracker category, 0 when there is none
first_mapping(def, tracker_cat) ==
    LET ms == def.categorymappings
        hits == {i \in DOMAIN ms : StringOrInt_to_string(ms[i].id) = tracker_cat}
    IN  IF hits = {} THEN 0 ELSE CHOOSE i \in hits : \A j \in hits : i <= j

\* str::parse::<i32> of the tracker categories of the model
parse_i32(s) ==
    CASE s = "7" -> 7
      [] s = "9" -> 9
      [] s = "42" -> 42
      [] s = "5030" -> 5030
      [] OTHER -> 0

\* a resolution that passes the tracker's own ID on when no mapping names a category
resolve_category_or_tracker_id(def, tracker_cat) ==
    LET i == first_mapping(def, tracker_cat)
        mapped == IF i = 0 THEN None
                  ELSE resolve_torznab_category_name(def.categorymappings[i].cat)
    IN  IF mapped = None THEN Some(parse_i32(tracker_cat)) ELSE mapped

(* IndexerDefinition::resolve_category *)
resolve_category(def, tracker_cat) ==
    LET i == first_mapping(def, tracker_cat)
    IN  IF i = 0 THEN None
        ELSE resolve_torznab_category_name(def.categorymappings[i].cat)

----------------------------------------------------------------------------
(* The result builder (indexer/result_builder.rs) *)

\* TorrentResult::new, with the fields the builder fills from URLs and categories
TorrentResult_new(title, guid) ==
    [title |-> title, guid |-> guid, link |-> None, details |-> None,
     magnet |-> None, categories |-> <<>>, info_hash |-> None, indexer |-> None]

\* ctx.result of one row: per field, what ctx.result.get answers
RowResult(title, details, download, magnet, category, infohash) ==
    [title |-> title, details |-> details, download |-> download,
     magnet |-> magnet, category |-> category, infohash |-> infohash]

synthesized_magnet(h, title) ==
    <<"magnet:", "?xt=urn:btih:">> \o to_lowercase(h) \o <<"&dn=">> \o urlencoding_encode(title)

\* 2. details and GUID
with_details(def, title, details) ==
    [TorrentResult_new(title, UnwrapOr(details, title)) EXCEPT
        !.details = details, !.indexer = Some(def.id)]

\* 3. categories
with_category(result, torznab_id) ==
    IF torznab_id # None
    THEN [result EXCEPT !.categories = Append(@, torznab_id[1])]
    ELSE result

\* 4. download link
with_download(result, ctx, base_url) ==
    IF ctx.download # None
    THEN [result EXCEPT !.link = Some(make_absolute_url(ctx.download[1], base_url))]
    ELSE result

\* 5. magnet
with_magnet(result, ctx) ==
    IF ctx.magnet # None THEN [result EXCEPT !.magnet = ctx.magnet] ELSE result

\* fallback: the magnet as link when the link is missing
with_link_fallback(result) ==
    IF result.link = None /\ result.magnet # None
    THEN [result EXCEPT !.link = result.magnet]
    ELSE result

\* 8. info hash, and a magnet made of it when the magnet is missing
with_infohash(result, ctx) ==
    IF ctx.infohash # None
    THEN [result EXCEPT
             !.info_hash = ctx.infohash,
             !.magnet = IF result.magnet = None
                        THEN Some(synthesized_magnet(ctx.infohash[1], result.title))
                        ELSE @]
    ELSE result

\* steps 2 to 8 of make_torrent_result, for a row that has the title
fill_result(def, ctx, base_url, title) ==
    with_infohash(
        with_link_fallback(
            with_magnet(
                with_download(
                    with_category(
                        with_details(def, title,
                            IF ctx.details = None THEN None
                            ELSE Some(make_absolute_url(ctx.details[1], base_url))),
                        IF ctx.category = None THEN None
                        ELSE resolve_category(def, ctx.category[1])),
                    ctx, base_url),
                ctx)),
        ctx)

\* a builder that asks only for the title's presence
make_torrent_result_any_title(def, ctx, base_url) ==
    IF ctx.title = None THEN None
    ELSE Some(fill_result(def, ctx, base_url, ctx.title[1]))

(* result_builder::make_torrent_result *)
make_torrent_result(def, ctx, base_url) ==
    IF ctx.title = None THEN None
    ELSE IF ctx.title[1] = <<>> THEN None
    ELSE Some(fill_result(def, ctx, base_url, ctx.title[1]))

----------------------------------------------------------------------------
(* The search executor (indexer/executor.rs) *)

\* IndexerDefinition::base_url
base_url_of(def) == IF def.links = <<>> THEN None ELSE Some(def.links[1])

(* build_search_request_for_path, for a GET search with the inputs rendered *)
build_search_request_for_path(def, base_url) ==
    LET rendered_path == def.path
        url == IF starts_with_http(rendered_path)
               THEN rendered_path
               ELSE trim_end_matches_slash(base_url)
                    \o (IF ~starts_with_slash(rendered_path)
                           /\ ~starts_with_question(rendered_path)
                        THEN <<"/">> ELSE <<>>)
                    \o rendered_path
        separator == IF contains_question(url) THEN "&" ELSE "?"
    IN  IF def.inputs = None THEN url
        ELSE url \o <<separator \o def.inputs[1]>>

\* the base the rows of a response are resolved against
resolution_base(def, url) ==
    IF def.response_type = "json" THEN def.links[1] ELSE url

\* the loop of parse_html_results and parse_json_results: per row, the builder's answer
row_outputs(def, body, base_url) ==
    [i \in DOMAIN body |-> make_torrent_result(def, body[i], base_url)]

\* the rows that pushed a result, in row order
RECURSIVE pushed_rows(_, _)
pushed_rows(outs, i) ==
    IF i > Len(outs) THEN <<>>
    ELSE (IF outs[i] = None THEN <<>> ELSE <<i>>) \o pushed_rows(outs, i + 1)

\* the Vec the loop pushed to
pushed_results(outs, kept) == [k \in DOMAIN kept |-> outs[kept[k]][1]]

----------------------------------------------------------------------------
(* Definitions and responses the executor is run on *)

SiteRoot == <<"https:", "//", "x.test", "/">>
SiteForum == <<"https:", "//", "x.test", "/", "forum", "/">>
SiteNoScheme == <<"x.test">>

TrackerMappings ==
    << CategoryMapping(StringOrInt_Int(7), "TV/SD"),
       CategoryMapping(StringOrInt_String("9"), "Custom"),
       CategoryMapping(StringOrInt_String("5030"), "Movies"),
       CategoryMapping(StringOrInt_String("7"), "Movies/HD") >>

LoadedDefinitions ==
    [id : {"n1"},
     links : {<<>>, <<SiteRoot>>, <<SiteForum, SiteRoot>>, <<SiteNoScheme>>},
     path : {<<"search.php">>, <<"/", "browse", "?cat=1">>, <<"?do=search">>,
             <<"https:", "//", "api.test", "/", "v1", "/", "q">>},
     inputs : {Some("q=ubuntu")},
     response_type : {"html", "json"},
     categorymappings : {TrackerMappings}]

NoDefinition ==
    [id |-> "", links |-> <<>>, path |-> <<>>, inputs |-> None,
     response_type |-> "html", categorymappings |-> <<>>]

Titles == {None, Some(<<>>), Some(<<"T">>), Some(<<"A", " ", "B">>)}
DetailsValues ==
    {None, Some(<<"/", "t", "/", "42">>),
     Some(<<"https:", "//", "x.test", "/", "t", "/", "42">>)}
DownloadValues ==
    {None, Some(<<"download.php", "?id=1">>), Some(<<"/", "dl", "/", "42">>),
     Some(<<"https:", "//", "cdn.test", "/", "f.torrent">>),
     Some(<<"//", "[">>), Some(<<"magnet:", "?xt=urn:btih:abc">>)}
MagnetValues ==
    {None, Some(<<"magnet:", "?xt=urn:btih:abc">>), Some(<<"/", "magnet", "/", "42">>)}
TrackerCategories == {None, Some("7"), Some("9"), Some("42"), Some("5030")}
InfoHashes == {None, Some(<<"ABC">>)}

AllRows ==
    {RowResult(t, d, l, m, c, h) :
        t \in Titles, d \in DetailsValues, l \in DownloadValues,
        m \in MagnetValues, c \in TrackerCategories, h \in InfoHashes}

RowWithoutTitle ==
    RowResult(None, Some(<<"/", "t", "/", "41">>), Some(<<"download.php", "?id=1">>),
              None, None, None)
RowWithEmptyTitle ==
    RowResult(Some(<<>>), None, Some(<<"/", "dl", "/", "42">>), None, Some("7"), None)
RowWithLink ==
    RowResult(Some(<<"T">>), Some(<<"/", "t", "/", "42">>),
              Some(<<"download.php", "?id=1">>), None, Some("7"), None)
RowWithHash ==
    RowResult(Some(<<"A", " ", "B">>), None, None, None, Some("9"), Some(<<"ABC">>))
PageRows == {RowWithoutTitle, RowWithEmptyTitle, RowWithLink, RowWithHash}

\* a body of one row of any kind, or a page of up to MaxRows rows
Bodies ==
    {<<r>> : r \in AllRows} \cup UNION {[1..n -> PageRows] : n \in 0..MaxRows}

\* what the request of a search path ends in: no successful response, or a body
Responses == {None} \cup {Some(b) : b \in Bodies}

----------------------------------------------------------------------------
(* SearchExecutor::search, up to its search path *)
search(def) ==
    /\ phase = "idle"
    /\ definition' = def
    /\ phase' = IF base_url_of(def) = None THEN "failed" ELSE "request"
    /\ UNCHANGED <<search_url, rows, path_results, origin>>
    /\ UNCHANGED <<cfgVars, aggVars, extVars>>

(* parse_html_results and parse_json_results: the path ends with the results *)
(* of the rows the builder answered for                                      *)
parse_results(body, outs) ==
    /\ phase' = "done"
    /\ rows' = body
    /\ path_results' = pushed_results(outs, pushed_rows(outs, 1))
    /\ origin' = pushed_rows(outs, 1)

(* SearchExecutor::execute_search_path: the request is built and sent; a    *)
(* response that is not a success fails the path, the rows of a success are *)
(* parsed into results.                                                     *)
execute_search_path ==
    /\ phase = "request"
    /\ \E response \in Responses :
         LET base_url == base_url_of(definition)[1]
             url == build_search_request_for_path(definition, base_url)
         IN  /\ search_url' = url
             /\ IF ~IsOk(Url_parse(url)) \/ response = None
                THEN /\ phase' = "failed"
                     /\ UNCHANGED <<rows, path_results, origin>>
                ELSE parse_results(response[1],
                                   row_outputs(definition, response[1],
                                               resolution_base(definition, url)))
    /\ UNCHANGED definition
    /\ UNCHANGED <<cfgVars, aggVars, extVars>>

IdleExecutor ==
    /\ definition = NoDefinition
    /\ phase = "idle"
    /\ search_url = <<>>
    /\ rows = <<>>
    /\ path_results = <<>>
    /\ origin = <<>>

----------------------------------------------------------------------------
(* SearchExecutor::search over the search paths of a definition            *)
(* (indexer/executor.rs, indexer/definition.rs)                            *)

\* i32::to_string of the Torznab categories of the model
i32_to_string(i) ==
    CASE i = 2000 -> "2000"
      [] i = 2030 -> "2030"
      [] i = 2040 -> "2040"
      [] i = 5000 -> "5000"
      [] i = 5030 -> "5030"
      [] i = 5040 -> "5040"
      [] i = 8000 -> "8000"
      [] OTHER -> "0"

\* the tracker ID of the first mapping whose category name resolves to the Torznab ID
first_mapping_to(def, torznab_cat) ==
    LET ms == def.categorymappings
        hits == {i \in DOMAIN ms :
                    resolve_torznab_category_name(ms[i].cat) = Some(torznab_cat)}
    IN  IF hits = {} THEN None
        ELSE Some(StringOrInt_to_string(ms[CHOOSE i \in hits : \A j \in hits : i <= j].id))

(* IndexerDefinition::get_tracker_category *)
get_tracker_category(def, torznab_cat) ==
    LET exact == first_mapping_to(def, torznab_cat)
        parent_cat == (torznab_cat \div 1000) * 1000
    IN  IF exact # None THEN exact
        ELSE IF parent_cat # torznab_cat THEN first_mapping_to(def, parent_cat)
        ELSE None

\* Iterator::filter_map over the query categories
RECURSIVE filter_map_tracker_category(_, _)
filter_map_tracker_category(def, cats) ==
    IF cats = <<>> THEN <<>>
    ELSE LET t == get_tracker_category(def, Head(cats))
         IN  (IF t = None THEN <<>> ELSE <<t[1]>>)
             \o filter_map_tracker_category(def, Tail(cats))

\* the resolved categories, or what from_search put there when there are none
resolved_or_as_is(resolved, cats) ==
    IF resolved # <<>> THEN resolved
    ELSE [i \in DOMAIN cats |-> i32_to_string(cats[i])]

(* search, lines 176-191: ctx.query.categories after the mapping *)
map_query_categories(def, cats) ==
    resolved_or_as_is(filter_map_tracker_category(def, cats), cats)

\* a path that declares one of the query's categories
path_matches_declared(path, cats) ==
    \E i \in DOMAIN path.categories :
        StringOrInt_to_string(path.categories[i]) \in Range(cats)

\* a path whose declared categories hold one of the query's
path_matches(path, cats) ==
    \/ path.categories = <<>>
    \/ \E i \in DOMAIN path.categories :
          StringOrInt_to_string(path.categories[i]) \in Range(cats)

\* the positions of the paths the filter keeps
matching_paths(def, cats) ==
    SelectSeq([i \in DOMAIN def.paths |-> i],
              LAMBDA i : path_matches(def.paths[i], cats))

\* the kept positions, or every position when none is kept
matching_or_all(matching, def) ==
    IF matching = <<>> THEN [i \in DOMAIN def.paths |-> i] ELSE matching

(* SearchExecutor::get_matching_paths *)
get_matching_paths(def, cats) ==
    IF def.paths = <<>> THEN <<>>
    ELSE IF cats = <<>> THEN [i \in DOMAIN def.paths |-> i]
    ELSE matching_or_all(matching_paths(def, cats), def)

\* a search path of the definition: its path template and its declared categories
SearchPath(path, categories) == [path |-> path, categories |-> categories]

PathForTv == SearchPath("a", <<StringOrInt_Int(7)>>)
PathForMovies == SearchPath("b", <<StringOrInt_String("5030")>>)
PathForAll == SearchPath("c", <<>>)

SearchDefinitions ==
    [links : {<<>>, <<SiteRoot>>},
     paths : {<<>>, <<PathForAll>>, <<PathForTv, PathForMovies>>,
              <<PathForMovies, PathForAll>>, <<PathForTv, PathForAll, PathForMovies>>},
     categorymappings : {<<>>, TrackerMappings}]

NoSearchDefinition == [links |-> <<>>, paths |-> <<>>, categorymappings |-> <<>>]

TorznabQueryCategories == {2030, 2040, 5030, 5040}

\* SearchQuery.categories: up to MaxCats Torznab IDs
QueryCategoryLists == UNION {[1..n -> TorznabQueryCategories] : n \in 0..MaxCats}

\* what the rows of a path's response are built into
PathRows(path) == <<path.path \o "1", path.path \o "2">>

\* how execute_search_path can end: the client's timeout fires, the request
\* fails sooner, or the response is parsed
PathOutcomes(path) ==
    {[result |-> Err, kind |-> "timeout", secs |-> REQUEST_TIMEOUT_SECS],
     [result |-> Err, kind |-> "error", secs |-> 1],
     [result |-> Ok(PathRows(path)), kind |-> "ok", secs |-> 1]}

notSearch == <<cfgVars, aggVars, bldVars, dlVars, proxyVars, tplVars, lockVars, moreVars>>

(* SearchExecutor::search, up to the loop over the paths *)
search_begin(def, cats) ==
    /\ search_state = "idle"
    /\ search_def' = def
    /\ query_categories' = cats
    /\ IF base_url_of(def) = None
       THEN /\ search_state' = "Err"
            /\ UNCHANGED <<ctx_categories, paths_to_try>>
       ELSE /\ ctx_categories' = IF cats # <<>> THEN map_query_categories(def, cats)
                                 ELSE <<>>
            /\ paths_to_try' = get_matching_paths(def, ctx_categories')
            /\ search_state' = IF paths_to_try' = <<>> THEN "Err" ELSE "paths"
    /\ UNCHANGED <<path_idx, search_results, path_log, elapsed>>
    /\ UNCHANGED notSearch

(* the loop of search, were a failing path to end the search *)
search_path_abort ==
    /\ search_state = "paths"
    /\ \E o \in PathOutcomes(search_def.paths[paths_to_try[path_idx + 1]]) :
          /\ elapsed' = elapsed + o.secs
          /\ path_log' = Append(path_log, o.kind)
          /\ search_results' = IF IsOk(o.result)
                               THEN search_results \o o.result[2]
                               ELSE <<>>
          /\ search_state' = IF ~IsOk(o.result) THEN "Err"
                             ELSE IF path_idx + 1 = Len(paths_to_try) THEN "Ok" ELSE "paths"
    /\ path_idx' = path_idx + 1
    /\ UNCHANGED <<search_def, query_categories, ctx_categories, paths_to_try>>
    /\ UNCHANGED notSearch

(* search, one turn of the loop: execute_search_path is awaited, its results *)
(* extend all_results or its error is logged; after the last path search     *)
(* returns Ok(all_results)                                                   *)
search_path ==
    /\ search_state = "paths"
    /\ \E o \in PathOutcomes(search_def.paths[paths_to_try[path_idx + 1]]) :
          /\ elapsed' = elapsed + o.secs
          /\ path_log' = Append(path_log, o.kind)
          /\ search_results' = IF IsOk(o.result)
                               THEN search_results \o o.result[2]
                               ELSE search_results
    /\ path_idx' = path_idx + 1
    /\ search_state' = IF path_idx' = Len(paths_to_try) THEN "Ok" ELSE "paths"
    /\ UNCHANGED <<search_def, query_categories, ctx_categories, paths_to_try>>
    /\ UNCHANGED notSearch

IdleSearch ==
    /\ search_def = NoSearchDefinition
    /\ query_categories = <<>>
    /\ ctx_categories = <<>>
    /\ paths_to_try = <<>>
    /\ path_idx = 0
    /\ search_results = <<>>
    /\ path_log = <<>>
    /\ elapsed = 0
    /\ search_state = "idle"

----------------------------------------------------------------------------
(* SearchExecutor::download (indexer/executor.rs) *)

Filter(name, args) == [name |-> name, args |-> args]

\* str::trim
RECURSIVE trim_start(_)
trim_start(s) == IF s # <<>> /\ Head(s) = " " THEN trim_start(Tail(s)) ELSE s

RECURSIVE trim_end(_)
trim_end(s) ==
    IF s # <<>> /\ s[Len(s)] = " " THEN trim_end(SubSeq(s, 1, Len(s) - 1)) ELSE s

\* filters::apply_filter, for the filters of the model
apply_filter(value, filter) ==
    CASE filter.name = "trim" -> trim_end(trim_start(value))
      [] filter.name = "prepend" -> filter.args \o value
      [] OTHER -> value

\* filters::apply_filters_with_context: the filters in declared order
RECURSIVE apply_filters_with_context(_, _)
apply_filters_with_context(value, filters) ==
    IF filters = <<>> THEN value
    ELSE apply_filters_with_context(apply_filter(value, Head(filters)), Tail(filters))

DownloadSelector(selector, attribute, filters) ==
    [selector |-> selector, attribute |-> attribute, filters |-> filters]

\* el.value().attr(name): the elements of the model carry href only
Element_attr(el, name) == IF name = "href" THEN el.href ELSE None

\* the attribute of the element, or its text
selector_value(el, selector) ==
    IF selector.attribute # None
    THEN UnwrapOr(Element_attr(el, selector.attribute[1]), <<>>)
    ELSE el.text

\* what one selector gives on the document: None unless an element matches
\* and its filtered value is not empty
selector_yield(document, selector) ==
    IF document[selector.selector] = None THEN None
    ELSE LET filtered == apply_filters_with_context(
                             selector_value(document[selector.selector][1], selector),
                             selector.filters)
         IN  IF filtered # <<>> THEN Some(filtered) ELSE None

\* the loop over the selectors: the first that yields, resolved, then break
RECURSIVE find_final_link(_, _, _)
find_final_link(document, selectors, base_url) ==
    IF selectors = <<>> THEN None
    ELSE IF selector_yield(document, Head(selectors)) # None
    THEN Some(make_absolute_url(selector_yield(document, Head(selectors))[1], base_url))
    ELSE find_final_link(document, Tail(selectors), base_url)

\* download_config.selectors is there and not empty
is_multi_step(def) ==
    /\ def.download # None
    /\ def.download[1].selectors # None
    /\ def.download[1].selectors[1] # <<>>

\* the elements and selectors of the model
Element(href, text) == [href |-> href, text |-> text]

RelativeLink == <<"torrents", "/", "42.torrent">>
RootedLink == <<"/", "get", "/", "42">>
CdnLink == <<"https:", "//", "cdn.test", "/", "f.torrent">>

Elements == [href : {None, Some(<<" ">>), Some(RelativeLink), Some(RootedLink)},
             text : {<<>>, CdnLink}]

SelectorNames == {"a.download", "a.alt"}

\* a details page: per CSS selector, the first element it matches
Documents == [SelectorNames -> {None} \cup {Some(el) : el \in Elements}]

SelDownloadHref == DownloadSelector("a.download", Some("href"), <<Filter("trim", <<>>)>>)
SelAltText == DownloadSelector("a.alt", None, <<>>)
SelAltData ==
    DownloadSelector("a.alt", Some("data-url"), <<Filter("prepend", <<"/", "dl", "/">>)>>)
SelAltHref == DownloadSelector("a.alt", Some("href"), <<>>)

Download(selectors) == [selectors |-> selectors]

DownloadDefinitions ==
    [links : {<<>>, <<SiteRoot>>},
     download : {None, Some(Download(None)), Some(Download(Some(<<>>))),
                 Some(Download(Some(<<SelDownloadHref>>))),
                 Some(Download(Some(<<SelDownloadHref, SelAltText>>))),
                 Some(Download(Some(<<SelAltHref, SelDownloadHref>>))),
                 Some(Download(Some(<<SelAltText, SelAltData>>)))}]

NoDownloadDefinition == [links |-> <<>>, download |-> None]

DetailsUrl == <<"https:", "//", "x.test", "/", "details", "/", "42">>
MirrorUrl == <<"https:", "//", "cdn.test", "/", "t", "/", "42">>
DownloadUrls == {DetailsUrl, MirrorUrl}

TorrentBodies == {"torrent-1", "torrent-2"}

\* how a GET ends: no response, a status that is not a success, or a body
PageResponses ==
    {[kind |-> "error"], [kind |-> "status"]}
        \cup {[kind |-> "success", body |-> d] : d \in Documents}
FileResponses ==
    {[kind |-> "error"], [kind |-> "status"]}
        \cup {[kind |-> "success", body |-> b] : b \in TorrentBodies}

notDownload == <<cfgVars, aggVars, bldVars, srchVars, proxyVars, tplVars, lockVars, moreVars>>

(* download, up to its first GET: the details page when the definition has *)
(* download selectors, the URL itself otherwise                            *)
download(def, url) ==
    /\ dl_state = "idle"
    /\ dl_def' = def
    /\ dl_url' = url
    /\ dl_gets' = <<url>>
    /\ IF is_multi_step(def)
       THEN /\ dl_state' = "details"
            /\ download_url' = None
       ELSE /\ dl_state' = "final"
            /\ download_url' = Some(url)
    /\ UNCHANGED <<dl_document, dl_result>>
    /\ UNCHANGED notDownload

(* the details page answers: the selector loop, then the second GET *)
download_details_page ==
    /\ dl_state = "details"
    /\ \E response \in PageResponses :
         IF response.kind # "success"
         THEN /\ dl_state' = "Err"
              /\ dl_result' = Err
              /\ UNCHANGED <<dl_document, download_url, dl_gets>>
         ELSE LET final_link == find_final_link(response.body,
                                    dl_def.download[1].selectors[1],
                                    UnwrapOr(base_url_of(dl_def), <<>>))
              IN  /\ dl_document' = Some(response.body)
                  /\ IF final_link = None
                     THEN /\ dl_state' = "Err"
                          /\ dl_result' = Err
                          /\ UNCHANGED <<download_url, dl_gets>>
                     ELSE /\ dl_state' = "final"
                          /\ download_url' = final_link
                          /\ dl_gets' = Append(dl_gets, final_link[1])
                          /\ UNCHANGED dl_result
    /\ UNCHANGED <<dl_def, dl_url>>
    /\ UNCHANGED notDownload

(* the final download answers *)
download_final ==
    /\ dl_state = "final"
    /\ \E response \in FileResponses :
         IF response.kind # "success"
         THEN /\ dl_state' = "Err"
              /\ dl_result' = Err
         ELSE /\ dl_state' = "Ok"
              /\ dl_result' = Ok(response.body)
    /\ UNCHANGED <<dl_def, dl_url, dl_document, download_url, dl_gets>>
    /\ UNCHANGED notDownload

IdleDownload ==
    /\ dl_def = NoDownloadDefinition
    /\ dl_url = <<>>
    /\ dl_state = "idle"
    /\ dl_document = None
    /\ download_url = None
    /\ dl_gets = <<>>
    /\ dl_result = Err

----------------------------------------------------------------------------
(* The download proxy links (torznab.rs generate_results_xml,              *)
(* server/api_indexers.rs proxy_download).  A string is the sequence of    *)
(* its UTF-8 bytes.                                                        *)

starts_with(s, prefix) ==
    Len(s) >= Len(prefix) /\ SubSeq(s, 1, Len(prefix)) = prefix

contains_byte(s, b) == \E i \in DOMAIN s : s[i] = b

\* "magnet:"
MAGNET_PREFIX == <<109, 97, 103, 110, 101, 116, 58>>
COLON == 58

\* the URL-safe alphabet: A-Z, a-z, 0-9, '-', '_'
url_safe_symbol(sextet) ==
    IF sextet < 26 THEN 65 + sextet
    ELSE IF sextet < 52 THEN 97 + (sextet - 26)
    ELSE IF sextet < 62 THEN 48 + (sextet - 52)
    ELSE IF sextet = 62 THEN 45
    ELSE 95

\* the standard alphabet, which ends in '+' and '/'
standard_symbol(sextet) ==
    IF sextet = 62 THEN 43 ELSE IF sextet = 63 THEN 47 ELSE url_safe_symbol(sextet)

\* the sextet a symbol of the URL-safe alphabet stands for, or -1
url_safe_sextet(symbol) ==
    IF symbol >= 65 /\ symbol <= 90 THEN symbol - 65
    ELSE IF symbol >= 97 /\ symbol <= 122 THEN symbol - 97 + 26
    ELSE IF symbol >= 48 /\ symbol <= 57 THEN symbol - 48 + 52
    ELSE IF symbol = 45 THEN 62
    ELSE IF symbol = 95 THEN 63
    ELSE -1

\* three bytes as four sextets, and the two short tails without padding
encode_chunk(bytes) ==
    IF Len(bytes) = 1
    THEN <<bytes[1] \div 4, (bytes[1] % 4) * 16>>
    ELSE IF Len(bytes) = 2
    THEN <<bytes[1] \div 4, (bytes[1] % 4) * 16 + bytes[2] \div 16,
           (bytes[2] % 16) * 4>>
    ELSE <<bytes[1] \div 4, (bytes[1] % 4) * 16 + bytes[2] \div 16,
           (bytes[2] % 16) * 4 + bytes[3] \div 64, bytes[3] % 64>>

RECURSIVE encode_sextets(_)
encode_sextets(bytes) ==
    IF bytes = <<>> THEN <<>>
    ELSE IF Len(bytes) <= 3 THEN encode_chunk(bytes)
    ELSE encode_chunk(SubSeq(bytes, 1, 3)) \o encode_sextets(SubSeq(bytes, 4, Len(bytes)))

\* an encoding with the standard alphabet
STANDARD_NO_PAD_encode(bytes) ==
    LET sextets == encode_sextets(bytes)
    IN  [i \in DOMAIN sextets |-> standard_symbol(sextets[i])]

(* base64 URL_SAFE_NO_PAD.encode *)
URL_SAFE_NO_PAD_encode(bytes) ==
    LET sextets == encode_sextets(bytes)
    IN  [i \in DOMAIN sextets |-> url_safe_symbol(sextets[i])]

\* four sextets as three bytes; a short tail must leave no bits over
decode_chunk(sextets) ==
    IF Len(sextets) = 2
    THEN IF sextets[2] % 16 = 0
         THEN Ok(<<sextets[1] * 4 + sextets[2] \div 16>>)
         ELSE Err
    ELSE IF Len(sextets) = 3
    THEN IF sextets[3] % 4 = 0
         THEN Ok(<<sextets[1] * 4 + sextets[2] \div 16,
                   (sextets[2] % 16) * 16 + sextets[3] \div 4>>)
         ELSE Err
    ELSE Ok(<<sextets[1] * 4 + sextets[2] \div 16,
              (sextets[2] % 16) * 16 + sextets[3] \div 4,
              (sextets[3] % 4) * 64 + sextets[4]>>)

RECURSIVE decode_sextets(_)
decode_sextets(sextets) ==
    IF sextets = <<>> THEN Ok(<<>>)
    ELSE IF Len(sextets) = 1 THEN Err
    ELSE IF Len(sextets) <= 4 THEN decode_chunk(sextets)
    ELSE LET rest == decode_sextets(SubSeq(sextets, 5, Len(sextets)))
         IN  IF IsOk(rest)
             THEN Ok(decode_chunk(SubSeq(sextets, 1, 4))[2] \o rest[2])
             ELSE Err

(* base64 URL_SAFE_NO_PAD.decode: Err on a symbol outside the alphabet     *)
(* (padding included), on an impossible length and on trailing bits        *)
URL_SAFE_NO_PAD_decode(symbols) ==
    IF \E i \in DOMAIN symbols : url_safe_sextet(symbols[i]) = -1
    THEN Err
    ELSE decode_sextets([i \in DOMAIN symbols |-> url_safe_sextet(symbols[i])])

\* the bytes from position i on are well-formed UTF-8
RECURSIVE is_utf8_from(_, _)
is_utf8_from(b, i) ==
    LET cont(j, lo, hi) == j <= Len(b) /\ b[j] >= lo /\ b[j] <= hi
    IN  IF i > Len(b) THEN TRUE
        ELSE IF b[i] < 128 THEN is_utf8_from(b, i + 1)
        ELSE IF b[i] >= 194 /\ b[i] <= 223
        THEN cont(i + 1, 128, 191) /\ is_utf8_from(b, i + 2)
        ELSE IF b[i] >= 224 /\ b[i] <= 239
        THEN /\ cont(i + 1, IF b[i] = 224 THEN 160 ELSE 128,
                            IF b[i] = 237 THEN 159 ELSE 191)
             /\ cont(i + 2, 128, 191)
             /\ is_utf8_from(b, i + 3)
        ELSE IF b[i] >= 240 /\ b[i] <= 244
        THEN /\ cont(i + 1, IF b[i] = 240 THEN 144 ELSE 128,
                            IF b[i] = 244 THEN 143 ELSE 191)
             /\ cont(i + 2, 128, 191)
             /\ cont(i + 3, 128, 191)
             /\ is_utf8_from(b, i + 4)
        ELSE FALSE

(* String::from_utf8 *)
String_from_utf8(bytes) == IF is_utf8_from(bytes, 1) THEN Ok(bytes) ELSE Err

\* the replacement escape_xml makes for one byte
escape_byte(b) ==
    CASE b = 38 -> <<38, 97, 109, 112, 59>>
      [] b = 60 -> <<38, 108, 116, 59>>
      [] b = 62 -> <<38, 103, 116, 59>>
      [] b = 34 -> <<38, 113, 117, 111, 116, 59>>
      [] b = 39 -> <<38, 97, 112, 111, 115, 59>>
      [] OTHER -> <<b>>

(* torznab::escape_xml *)
RECURSIVE escape_xml(_)
escape_xml(s) ==
    IF s = <<>> THEN <<>> ELSE escape_byte(Head(s)) \o escape_xml(Tail(s))

\* what an XML reader makes of an attribute value
RECURSIVE xml_unescape(_)
xml_unescape(s) ==
    LET entity(b) == starts_with(s, escape_byte(b))
        after(b) == xml_unescape(SubSeq(s, Len(escape_byte(b)) + 1, Len(s)))
    IN  IF s = <<>> THEN <<>>
        ELSE IF Head(s) # 38 THEN <<Head(s)>> \o xml_unescape(Tail(s))
        ELSE IF entity(38) THEN <<38>> \o after(38)
        ELSE IF entity(60) THEN <<60>> \o after(60)
        ELSE IF entity(62) THEN <<62>> \o after(62)
        ELSE IF entity(34) THEN <<34>> \o after(34)
        ELSE IF entity(39) THEN <<39>> \o after(39)
        ELSE <<38>> \o xml_unescape(Tail(s))

\* "/api/v2.0/indexers/" and "/dl?link=", the pieces of the format string
DL_ROUTE == <<47, 97, 112, 105, 47, 118, 50, 46, 48, 47,
              105, 110, 100, 101, 120, 101, 114, 115, 47>>
DL_QUERY == <<47, 100, 108, 63, 108, 105, 110, 107, 61>>

\* the fallback chain magnet -> link -> details -> guid
raw_enclosure_url(result) ==
    IF result.magnet # None THEN result.magnet[1]
    ELSE IF result.link # None THEN result.link[1]
    ELSE IF result.details # None THEN result.details[1]
    ELSE result.guid

(* generate_results_xml: the enclosure URL of one item *)
enclosure_url(result, proxy_base_url, indexer_id) ==
    IF ~starts_with(raw_enclosure_url(result), MAGNET_PREFIX)
    THEN IF proxy_base_url # None /\ indexer_id # None
         THEN proxy_base_url[1] \o DL_ROUTE \o indexer_id[1] \o DL_QUERY
                  \o URL_SAFE_NO_PAD_encode(raw_enclosure_url(result))
         ELSE raw_enclosure_url(result)
    ELSE raw_enclosure_url(result)

\* the value of a hexadecimal digit, or -1
hex_value(b) ==
    IF b >= 48 /\ b <= 57 THEN b - 48
    ELSE IF b >= 65 /\ b <= 70 THEN b - 55
    ELSE IF b >= 97 /\ b <= 102 THEN b - 87
    ELSE -1

\* form-urlencoded decoding of a query value: '+' and %XX
RECURSIVE form_decode(_)
form_decode(s) ==
    IF s = <<>> THEN <<>>
    ELSE IF Head(s) = 43 THEN <<32>> \o form_decode(Tail(s))
    ELSE IF Head(s) = 37 /\ Len(s) >= 3 /\ hex_value(s[2]) # -1 /\ hex_value(s[3]) # -1
    THEN <<16 * hex_value(s[2]) + hex_value(s[3])>> \o form_decode(SubSeq(s, 4, Len(s)))
    ELSE <<Head(s)>> \o form_decode(Tail(s))

\* the bytes before the first b, all of them when there is none
RECURSIVE before_byte(_, _)
before_byte(s, b) ==
    IF s = <<>> \/ Head(s) = b THEN <<>> ELSE <<Head(s)>> \o before_byte(Tail(s), b)

\* the bytes after the first b, none when there is none
RECURSIVE after_byte(_, _)
after_byte(s, b) ==
    IF s = <<>> THEN <<>> ELSE IF Head(s) = b THEN Tail(s) ELSE after_byte(Tail(s), b)

\* Query<DownloadParams>: the value of the first pair of the query named link
RECURSIVE query_link(_)
query_link(query) ==
    LET pair == before_byte(query, 38)
    IN  IF query = <<>> THEN None
        ELSE IF form_decode(before_byte(pair, 61)) = <<108, 105, 110, 107>>
        THEN Some(form_decode(after_byte(pair, 61)))
        ELSE query_link(after_byte(query, 38))

\* the query of a request URL: after the first '?', up to a '#'
url_query(url) == before_byte(after_byte(url, 63), 35)

\* Ok(bytes) => String::from_utf8(bytes).unwrap_or(link), Err(_) => link
decoded_or_link(decoded, link) ==
    IF IsOk(decoded) /\ IsOk(String_from_utf8(decoded[2])) THEN decoded[2] ELSE link

(* proxy_download: the URL the handler goes on with *)
proxy_download_url(link) ==
    IF ~contains_byte(link, COLON)
    THEN decoded_or_link(URL_SAFE_NO_PAD_decode(link), link)
    ELSE link

(* proxy_download: a magnet is answered by a redirect, anything else is downloaded *)
proxy_download_response(link) ==
    IF starts_with(proxy_download_url(link), MAGNET_PREFIX)
    THEN [status |-> "307 Temporary Redirect", location |-> Some(proxy_download_url(link)),
          downloaded |-> None]
    ELSE [status |-> "download", location |-> None,
          downloaded |-> Some(proxy_download_url(link))]

NoResponse == [status |-> "none", location |-> None, downloaded |-> None]

\* longest URL the model draws, in bytes
MaxUrlLen == 3

\* ':', '/', '&', '?', 'h'
UrlBytes == {58, 47, 38, 63, 104}

UrlStrings == UNION {[1..n -> UrlBytes] : n \in 0..MaxUrlLen}

\* "magnet:?x&y", "magnet:", "magnet" and "hé"
MagnetUrls == {MAGNET_PREFIX \o <<63, 120, 38, 121>>, MAGNET_PREFIX}
OtherUrls == {<<109, 97, 103, 110, 101, 116>>, <<104, 195, 169>>}

FeedResults ==
    [magnet : {None} \cup {Some(u) : u \in MagnetUrls},
     link : {None} \cup {Some(u) : u \in UrlStrings \cup OtherUrls},
     details : {None, Some(<<104, 58, 47, 47, 104, 47, 104>>)},
     guid : {<<103>>}]

NoFeedResult == [magnet |-> None, link |-> None, details |-> None, guid |-> <<>>]

\* "http://h:3420"; "all" and "i"
ProxyBaseUrls == {<<104, 116, 116, 112, 58, 47, 47, 104, 58, 51, 52, 50, 48>>}
IndexerIds == {<<97, 108, 108>>, <<105>>}

\* links a client may send on its own: magnets, plain URLs, symbols that are
\* no encoding, an encoding of bytes that are no string, an encoded magnet
ClientLinks ==
    MagnetUrls \cup UrlStrings \cup OtherUrls
        \cup {<<95, 119>>, <<104>>}
        \cup {URL_SAFE_NO_PAD_encode(u) : u \in MagnetUrls}

notProxy == <<cfgVars, aggVars, bldVars, srchVars, dlVars, tplVars, lockVars, moreVars>>

(* the feed of a search: the enclosure of an item, as written in the XML *)
generate_results_xml ==
    /\ feed_state = "idle"
    /\ \E result \in FeedResults, base \in ProxyBaseUrls, indexer \in IndexerIds :
         /\ feed_result' = result
         /\ feed_base' = base \o DL_ROUTE \o indexer
         /\ enclosure' = escape_xml(enclosure_url(result, Some(base), Some(indexer)))
    /\ feed_state' = "feed"
    /\ UNCHANGED <<dl_link, dl_response>>
    /\ UNCHANGED notProxy

(* a client follows the enclosure of the feed into the /dl route *)
proxy_download_enclosure ==
    /\ feed_state = "feed"
    /\ starts_with(xml_unescape(enclosure), feed_base)
    /\ query_link(url_query(xml_unescape(enclosure))) # None
    /\ dl_link' = query_link(url_query(xml_unescape(enclosure)))
    /\ dl_response' = proxy_download_response(query_link(url_query(xml_unescape(enclosure)))[1])
    /\ feed_state' = "followed"
    /\ UNCHANGED <<feed_result, feed_base, enclosure>>
    /\ UNCHANGED notProxy

(* a client calls the /dl route with a link of its own *)
proxy_download ==
    /\ feed_state = "idle"
    /\ \E link \in ClientLinks :
         /\ dl_link' = Some(link)
         /\ dl_response' = proxy_download_response(link)
    /\ feed_state' = "called"
    /\ UNCHANGED <<feed_result, feed_base, enclosure>>
    /\ UNCHANGED notProxy

IdleProxy ==
    /\ feed_state = "idle"
    /\ feed_result = NoFeedResult
    /\ feed_base = <<>>
    /\ enclosure = <<>>
    /\ dl_link = None
    /\ dl_response = NoResponse

----------------------------------------------------------------------------
(* The template engine (indexer/template.rs).  A template is the sequence  *)
(* of its tags and of the text between them; the templates of the model    *)
(* hold no range block.                                                    *)

\* an expression path: as written, with the leading '.' trimmed, and
\* whether what is left holds a '.'
TemplatePath(text, name, dotted) == [text |-> text, name |-> name, dotted |-> dotted]

KeywordsPath == TemplatePath(".Keywords", "Keywords", FALSE)
FoundLiteral == TemplatePath("found", "found", FALSE)
MissingPath == TemplatePath(".Config.missing", "Config.missing", TRUE)
FalsePath == TemplatePath(".False", "False", FALSE)

IsConfigPath(path) == path.name \in {"Config.missing"}

(* get_template_value, with an empty ctx.config *)
get_template_value(path, keywords) ==
    CASE path.name = "False" -> "false"
      [] path.name = "True" -> "true"
      [] path.name \in {"Keywords", "Query.Keywords"} -> keywords
      [] IsConfigPath(path) -> ""
      [] OTHER -> IF ~path.dotted THEN path.name ELSE ""

is_truthy(value) == value # "" /\ value # "false" /\ value # "0"

\* a condition: its operator, its arguments, its text, and whether the
\* text holds a '.'
Condition(op, args, text, dotted) ==
    [op |-> op, args |-> args, text |-> text, dotted |-> dotted]

CondKeywords == Condition("truthy", <<KeywordsPath>>, ".Keywords", TRUE)
CondEqFound == Condition("eq", <<KeywordsPath, FoundLiteral>>, "eq .Keywords found", TRUE)
CondLiteral == Condition("truthy", <<FoundLiteral>>, "found", FALSE)
Conditions == {CondKeywords, CondEqFound, CondLiteral}

evaluate_eq_condition(args, keywords) ==
    IF Len(args) < 2 THEN FALSE
    ELSE get_template_value(args[1], keywords) = get_template_value(args[2], keywords)

(* evaluate_condition *)
evaluate_condition(cond, keywords) ==
    CASE cond.op = "eq" -> evaluate_eq_condition(cond.args, keywords)
      [] cond.op = "ne" -> ~evaluate_eq_condition(cond.args, keywords)
      [] OTHER -> is_truthy(get_template_value(cond.args[1], keywords))

NoExpr == TemplatePath("", "", FALSE)

\* the pieces of a template
TextPiece(text) == [kind |-> "text", text |-> text, expr |-> NoExpr]
VarTag(path) == [kind |-> "var", text |-> "{{ " \o path.text \o " }}", expr |-> path]
IfTag(cond) == [kind |-> "if", text |-> "{{ if " \o cond.text \o " }}", expr |-> cond]
ElseTag == [kind |-> "else", text |-> "{{ else }}", expr |-> NoExpr]
EndTag == [kind |-> "end", text |-> "{{ end }}", expr |-> NoExpr]

\* a scan that closes the first if pushed
RECURSIVE find_block_outermost(_, _, _)
find_block_outermost(tokens, scan_pos, start_tag_indices) ==
    IF scan_pos > Len(tokens) THEN None
    ELSE IF tokens[scan_pos].kind = "if"
    THEN find_block_outermost(tokens, scan_pos + 1, Append(start_tag_indices, scan_pos))
    ELSE IF tokens[scan_pos].kind = "end" /\ start_tag_indices # <<>>
    THEN Some(<<start_tag_indices[1], scan_pos>>)
    ELSE find_block_outermost(tokens, scan_pos + 1, start_tag_indices)

\* the scan of process_if_blocks: an if tag is pushed, the first end tag
\* with an if on the stack closes the last one pushed
RECURSIVE find_block(_, _, _)
find_block(tokens, scan_pos, start_tag_indices) ==
    IF scan_pos > Len(tokens) THEN None
    ELSE IF tokens[scan_pos].kind = "if"
    THEN find_block(tokens, scan_pos + 1, Append(start_tag_indices, scan_pos))
    ELSE IF tokens[scan_pos].kind = "end" /\ start_tag_indices # <<>>
    THEN Some(<<start_tag_indices[Len(start_tag_indices)], scan_pos>>)
    ELSE find_block(tokens, scan_pos + 1, start_tag_indices)

\* inner_content.split("{{ else }}"): parts[0]
RECURSIVE before_else(_)
before_else(inner) ==
    IF inner = <<>> \/ Head(inner).kind = "else" THEN <<>>
    ELSE <<Head(inner)>> \o before_else(Tail(inner))

\* what follows the first else tag
RECURSIVE after_else(_)
after_else(inner) ==
    IF inner = <<>> THEN <<>>
    ELSE IF Head(inner).kind = "else" THEN Tail(inner)
    ELSE after_else(Tail(inner))

\* parts[1], or the empty string
else_part(inner) == before_else(after_else(inner))

\* the replacement of one block
block_replacement(if_tag, inner, keywords) ==
    IF evaluate_condition(if_tag.expr, keywords) THEN before_else(inner) ELSE else_part(inner)

replace_range(tokens, if_start, block_end, replacement) ==
    SubSeq(tokens, 1, if_start - 1) \o replacement \o SubSeq(tokens, block_end + 1, Len(tokens))

\* one turn of the loop of process_if_blocks
resolve_block(tokens, block, keywords) ==
    replace_range(tokens, block[1], block[2],
        block_replacement(tokens[block[1]],
                          SubSeq(tokens, block[1] + 1, block[2] - 1), keywords))

(* process_if_blocks *)
RECURSIVE process_if_blocks(_, _)
process_if_blocks(tokens, keywords) ==
    IF find_block(tokens, 1, <<>>) = None THEN tokens
    ELSE process_if_blocks(resolve_block(tokens, find_block(tokens, 1, <<>>)[1], keywords),
                           keywords)

\* the loop of render_template around it
RECURSIVE if_blocks_fixed_point(_, _)
if_blocks_fixed_point(tokens, keywords) ==
    IF process_if_blocks(tokens, keywords) = tokens THEN tokens
    ELSE if_blocks_fixed_point(process_if_blocks(tokens, keywords), keywords)

\* the expression RE_VAR captures in a tag that is still there
captured_path(token) ==
    CASE token.kind = "var" -> token.expr
      [] token.kind = "if" ->
            TemplatePath("if " \o token.expr.text, "if " \o token.expr.text,
                         token.expr.dotted)
      [] token.kind = "else" -> TemplatePath("else", "else", FALSE)
      [] OTHER -> TemplatePath("end", "end", FALSE)

(* substitute_variables, and the {query} placeholders after it *)
substitute_variables(tokens, keywords) ==
    [i \in DOMAIN tokens |->
        IF tokens[i].kind = "text"
        THEN IF tokens[i].text \in {"{query}", "{keywords}"} THEN keywords
             ELSE IF tokens[i].text = "{page}" THEN "1"
             ELSE tokens[i].text
        ELSE get_template_value(captured_path(tokens[i]), keywords)]

(* render_template: the rendered string, piece by piece *)
render(tokens, keywords) ==
    substitute_variables(if_blocks_fixed_point(tokens, keywords), keywords)

\* a template as it is written: pieces, and if blocks with their branches
Leaf(token) == [kind |-> "leaf", token |-> token, then |-> <<>>, else_ |-> None]
Block(cond, then, else_) ==
    [kind |-> "block", token |-> IfTag(cond), then |-> then, else_ |-> else_]
\* an if tag that no end tag closes
OpenIf(cond) == [kind |-> "open", token |-> IfTag(cond), then |-> <<>>, else_ |-> None]

\* the text of a written template
RECURSIVE flatten(_)
RECURSIVE flatten_node(_)
flatten(body) ==
    IF body = <<>> THEN <<>> ELSE flatten_node(Head(body)) \o flatten(Tail(body))

flatten_node(node) ==
    IF node.kind = "block"
    THEN <<node.token>> \o flatten(node.then)
             \o (IF node.else_ # None THEN <<ElseTag>> \o flatten(node.else_[1]) ELSE <<>>)
             \o <<EndTag>>
    ELSE <<node.token>>

BranchTexts == {"FOUND", "MISMATCH", "EMPTY"}

PlainBodies == {<<>>} \cup {<<Leaf(TextPiece(t))>> : t \in BranchTexts}

BlocksOver(bodies) ==
    {Block(c, t, e) : c \in Conditions, t \in bodies,
                      e \in {None} \cup {Some(b) : b \in bodies}}

FlatBlocks == BlocksOver(PlainBodies)

OneBlockBodies == PlainBodies \cup {<<b>> : b \in FlatBlocks}

NestedBlocks == BlocksOver(OneBlockBodies)

\* nested blocks, sequential blocks, blocks after a variable, placeholders
WrittenTemplates ==
    {<<b>> : b \in NestedBlocks}
        \cup {<<a, b>> : a \in FlatBlocks, b \in FlatBlocks}
        \cup {<<Leaf(VarTag(p)), b>> : p \in {KeywordsPath, MissingPath, FalsePath},
                                       b \in FlatBlocks}
        \cup {<<Leaf(TextPiece("{query}")), Leaf(TextPiece("{page}"))>>}

\* templates with one if tag that has no end
MalformedTemplates ==
    {<<OpenIf(c)>> \o body : c \in Conditions, body \in OneBlockBodies}
        \cup {body \o <<OpenIf(c)>> : c \in Conditions, body \in OneBlockBodies}

KeywordValues == {"", "found", "other", "false", "0"}

notTemplate == <<cfgVars, aggVars, bldVars, srchVars, dlVars, proxyVars, lockVars, moreVars>>

(* render_template *)
render_template ==
    /\ render_state = "idle"
    /\ \E blocks \in WrittenTemplates \cup MalformedTemplates, keywords \in KeywordValues :
         /\ template_blocks' = blocks
         /\ template' = flatten(blocks)
         /\ ctx_keywords' = keywords
         /\ rendered' = render(flatten(blocks), keywords)
    /\ render_state' = "done"
    /\ UNCHANGED notTemplate

IdleTemplate ==
    /\ render_state = "idle"
    /\ template_blocks = <<>>
    /\ template = <<>>
    /\ ctx_keywords = ""
    /\ rendered = <<>>

----------------------------------------------------------------------------
(* The shared locks (server/mod.rs AppState, indexer/manager.rs): the      *)
(* handlers as the sequence of their lock operations, suspension points    *)
(* and registry operations.  tokio's RwLock is fair: a request waits       *)
(* behind every request queued before it.                                  *)

LockNames == {"config", "native_indexers", "definitions", "indexers"}

FreeLock == [readers |-> {}, writer |-> None, queue |-> <<>>]

\* a grant that other guards never hold back
Unguarded(lock, mode) == TRUE

\* a read guard goes with other read guards, a write guard with none
Compatible(lock, mode) ==
    IF mode = "read" THEN lock.writer = None
    ELSE lock.writer = None /\ lock.readers = {}

granted_to(lock, h, mode) ==
    IF mode = "read" THEN [lock EXCEPT !.readers = @ \cup {h}]
    ELSE [lock EXCEPT !.writer = Some(h)]

released_by(lock, h) ==
    [lock EXCEPT !.readers = @ \ {h},
                 !.writer = IF @ = Some(h) THEN None ELSE @]

Instr(op, arg, early) == [op |-> op, arg |-> arg, early |-> early]

\* api_native.rs search_native
locks_search_native ==
    << Instr("io", "get_cached_results", TRUE),
       Instr("read", "native_indexers", FALSE),
       Instr("read", "definitions", FALSE),
       Instr("list_all_definitions", "", FALSE),
       Instr("return_if_empty", "", FALSE),
       Instr("read", "config", FALSE),
       Instr("io", "buffer_unordered", FALSE),
       Instr("io", "set_cached_results", FALSE),
       Instr("return", "", FALSE) >>

\* api_indexers.rs torznab_api, one native indexer
locks_torznab_api ==
    << Instr("read", "native_indexers", FALSE),
       Instr("read", "definitions", FALSE),
       Instr("list_all_definitions", "", FALSE),
       Instr("return_if_empty", "", FALSE),
       Instr("read", "config", FALSE),
       Instr("io", "executor.search", FALSE),
       Instr("return", "", FALSE) >>

\* api_info.rs get_stats
locks_get_stats ==
    << Instr("read", "config", FALSE),
       Instr("read", "native_indexers", FALSE),
       Instr("read", "definitions", FALSE),
       Instr("list_all_definitions", "", FALSE),
       Instr("read", "definitions", FALSE),
       Instr("list_all_definitions", "", FALSE),
       Instr("io", "get_recent_logs", FALSE),
       Instr("return", "", FALSE) >>

\* api_settings.rs save_proxy_config
locks_save_proxy_config ==
    << Instr("write", "config", FALSE),
       Instr("io", "save_config", TRUE),
       Instr("write", "native_indexers", FALSE),
       Instr("new_manager", "", FALSE),
       Instr("read_dir", "new", FALSE),
       Instr("insert", "new", FALSE),
       Instr("swap", "", FALSE),
       Instr("return", "", FALSE) >>

\* IndexerManager::load_definitions on the shared manager
load_definitions ==
    << Instr("read_dir", "shared", FALSE),
       Instr("write", "definitions", FALSE),
       Instr("clear", "", FALSE),
       Instr("write", "indexers", FALSE),
       Instr("insert", "shared", FALSE),
       Instr("drop", "indexers", FALSE),
       Instr("drop", "definitions", FALSE) >>

\* api_native.rs download_indexers
locks_download_indexers ==
    << Instr("read", "config", FALSE),
       Instr("io", "create_dir_all", TRUE),
       Instr("io", "download_by_names", TRUE),
       Instr("write", "native_indexers", FALSE) >>
    \o load_definitions
    \o << Instr("return", "", FALSE) >>

Handlers == {"search_native", "torznab_api", "get_stats", "save_proxy_config",
             "download_indexers"}

Program(h) ==
    CASE h = "search_native" -> locks_search_native
      [] h = "torznab_api" -> locks_torznab_api
      [] h = "get_stats" -> locks_get_stats
      [] h = "save_proxy_config" -> locks_save_proxy_config
      [] h = "download_indexers" -> locks_download_indexers

\* the definition files a directory can hold, in the order read_dir lists them
DefinitionFiles == <<"n1", "n2">>

read_dir(files) == SelectSeq(DefinitionFiles, LAMBDA f : f \in files)

\* the instruction a handler is at
Current(h) == Program(h)[pc[h]]

IsQueued(h) == \E l \in LockNames : \E i \in DOMAIN locks[l].queue : locks[l].queue[i][1] = h

notLocks == <<indexers, disabled_indexers, aggVars, bldVars, srchVars, dlVars, proxyVars, tplVars, moreVars>>

(* a request reaches its handler *)
handler_begin(h) ==
    /\ pc[h] = 0
    /\ pc' = [pc EXCEPT ![h] = 1]
    /\ UNCHANGED <<locks, disk, entries, new_manager, rebuild, observed, definitions>>
    /\ UNCHANGED notLocks

(* lock.read().await, lock.write().await: granted at once when nothing is  *)
(* queued and the guards held allow it, queued otherwise                   *)
lock_request(h) ==
    /\ pc[h] # 0
    /\ Current(h).op \in {"read", "write"}
    /\ ~IsQueued(h)
    /\ LET l == Current(h).arg
           mode == Current(h).op
       IN  IF locks[l].queue = <<>> /\ Compatible(locks[l], mode)
           THEN /\ locks' = [locks EXCEPT ![l] = granted_to(@, h, mode)]
                /\ pc' = [pc EXCEPT ![h] = @ + 1]
           ELSE /\ locks' = [locks EXCEPT ![l].queue = Append(@, <<h, mode>>)]
                /\ UNCHANGED pc
    /\ UNCHANGED <<disk, entries, new_manager, rebuild, observed, definitions>>
    /\ UNCHANGED notLocks

(* the request at the head of a queue is granted *)
lock_granted(h) ==
    /\ pc[h] # 0
    /\ \E l \in LockNames :
         /\ locks[l].queue # <<>>
         /\ Head(locks[l].queue)[1] = h
         /\ Compatible(locks[l], Head(locks[l].queue)[2])
         /\ locks' = [locks EXCEPT
                         ![l] = granted_to([@ EXCEPT !.queue = Tail(@)], h,
                                           Head(locks[l].queue)[2])]
    /\ pc' = [pc EXCEPT ![h] = @ + 1]
    /\ UNCHANGED <<disk, entries, new_manager, rebuild, observed, definitions>>
    /\ UNCHANGED notLocks

(* drop(guard) *)
guard_drop(h) ==
    /\ pc[h] # 0
    /\ Current(h).op = "drop"
    /\ locks' = [locks EXCEPT ![Current(h).arg] = released_by(@, h)]
    /\ pc' = [pc EXCEPT ![h] = @ + 1]
    /\ UNCHANGED <<disk, entries, new_manager, rebuild, observed, definitions>>
    /\ UNCHANGED notLocks

\* what the operation leaves in the definitions directory
disk_after(what, files, f) ==
    IF what = "download_by_names" THEN files \cup {f} ELSE files

\* the handler returns: its guards are dropped
returned(h) ==
    /\ locks' = [l \in LockNames |-> released_by(locks[l], h)]
    /\ pc' = [pc EXCEPT ![h] = 0]
    /\ entries' = [entries EXCEPT ![h] = <<>>]
    /\ new_manager' = [new_manager EXCEPT ![h] = <<>>]
    /\ observed' = [observed EXCEPT ![h] = <<>>]

(* a network or file operation ends: the handler goes on, or returns early *)
(* where it checks for an error                                            *)
io_done(h) ==
    /\ pc[h] # 0
    /\ Current(h).op = "io"
    /\ \E ok \in BOOLEAN, f \in Range(DefinitionFiles) :
         /\ ~ok => Current(h).early
         /\ IF ok
            THEN /\ disk' = disk_after(Current(h).arg, disk, f)
                 /\ pc' = [pc EXCEPT ![h] = @ + 1]
                 /\ UNCHANGED <<locks, entries, new_manager, observed>>
            ELSE /\ returned(h)
                 /\ UNCHANGED disk
    /\ UNCHANGED <<rebuild, definitions>>
    /\ UNCHANGED notLocks

(* list_all_definitions: the map is copied and the inner guard dropped *)
list_all_definitions(h) ==
    /\ pc[h] # 0
    /\ Current(h).op = "list_all_definitions"
    /\ observed' = [observed EXCEPT ![h] =
           Append(@, [defs |-> definitions,
                      pre |-> IF rebuild = None THEN definitions ELSE rebuild[1].pre,
                      post |-> IF rebuild = None THEN definitions ELSE rebuild[1].post,
                      concurrent |-> \E g \in Handlers \ {h} :
                                         /\ pc[g] # 0
                                         /\ \E i \in DOMAIN Program(g) :
                                              Program(g)[i].op \in {"clear", "swap"}])]
    /\ locks' = [locks EXCEPT !["definitions"] = released_by(@, h)]
    /\ pc' = [pc EXCEPT ![h] = @ + 1]
    /\ UNCHANGED <<disk, entries, new_manager, rebuild, definitions>>
    /\ UNCHANGED notLocks

(* if definitions.is_empty() { return }, and the indexer that is not found *)
return_if_empty(h) ==
    /\ pc[h] # 0
    /\ Current(h).op = "return_if_empty"
    /\ IF observed[h][Len(observed[h])].defs = <<>>
       THEN returned(h)
       ELSE /\ pc' = [pc EXCEPT ![h] = @ + 1]
            /\ UNCHANGED <<locks, entries, new_manager, observed>>
    /\ UNCHANGED <<disk, rebuild, definitions>>
    /\ UNCHANGED notLocks

(* IndexerManager::new, and std::fs::read_dir *)
registry_open(h) ==
    /\ pc[h] # 0
    /\ Current(h).op \in {"new_manager", "read_dir"}
    /\ IF Current(h).op = "new_manager"
       THEN /\ new_manager' = [new_manager EXCEPT ![h] = <<>>]
            /\ UNCHANGED entries
       ELSE /\ entries' = [entries EXCEPT ![h] = read_dir(disk)]
            /\ UNCHANGED new_manager
    /\ pc' = [pc EXCEPT ![h] = @ + 1]
    /\ UNCHANGED <<locks, disk, rebuild, observed, definitions>>
    /\ UNCHANGED notLocks

(* definitions.clear() *)
registry_clear(h) ==
    /\ pc[h] # 0
    /\ Current(h).op = "clear"
    /\ rebuild' = Some([by |-> h, pre |-> definitions, post |-> entries[h]])
    /\ definitions' = <<>>
    /\ pc' = [pc EXCEPT ![h] = @ + 1]
    /\ UNCHANGED <<locks, disk, entries, new_manager, observed>>
    /\ UNCHANGED notLocks

(* one turn of the loop over the directory: from_file, then insert; after  *)
(* the last entry the loop ends                                            *)
registry_insert(h) ==
    /\ pc[h] # 0
    /\ Current(h).op = "insert"
    /\ IF entries[h] # <<>>
       THEN /\ entries' = [entries EXCEPT ![h] = Tail(@)]
            /\ IF Current(h).arg = "new"
               THEN /\ new_manager' = [new_manager EXCEPT ![h] = Append(@, Head(entries[h]))]
                    /\ UNCHANGED definitions
               ELSE /\ definitions' = Append(definitions, Head(entries[h]))
                    /\ UNCHANGED new_manager
            /\ UNCHANGED <<pc, rebuild>>
       ELSE /\ pc' = [pc EXCEPT ![h] = @ + 1]
            /\ rebuild' = IF Current(h).arg = "new" THEN rebuild ELSE None
            /\ UNCHANGED <<entries, new_manager, definitions>>
    /\ UNCHANGED <<locks, disk, observed>>
    /\ UNCHANGED notLocks

(* *manager = new_manager *)
registry_swap(h) ==
    /\ pc[h] # 0
    /\ Current(h).op = "swap"
    /\ definitions' = new_manager[h]
    /\ pc' = [pc EXCEPT ![h] = @ + 1]
    /\ UNCHANGED <<locks, disk, entries, new_manager, rebuild, observed>>
    /\ UNCHANGED notLocks

(* the handler answers *)
handler_return(h) ==
    /\ pc[h] # 0
    /\ Current(h).op = "return"
    /\ returned(h)
    /\ UNCHANGED <<disk, rebuild, definitions>>
    /\ UNCHANGED notLocks

IdleLocks ==
    /\ pc = [h \in Handlers |-> 0]
    /\ locks = [l \in LockNames |-> FreeLock]
    /\ disk = Range(definitions)
    /\ entries = [h \in Handlers |-> <<>>]
    /\ new_manager = [h \in Handlers |-> <<>>]
    /\ rebuild = None
    /\ observed = [h \in Handlers |-> <<>>]

----------------------------------------------------------------------------
----------------------------------------------------------------------------
(* IndexerManager::load_definitions (indexer/manager.rs) over a directory   *)
(* of definition files.  A file is its name, its extension, whether it can  *)
(* be read, and its content as a sequence of lines; a line is a key and a   *)
(* value, the byte order mark is a line of its own at the head.  The two    *)
(* HashMaps of the manager are functions from the ids they hold.            *)

DefinitionFile(name, extension, readable, content) ==
    [name |-> name, extension |-> extension, readable |-> readable, content |-> content]

YamlLine(key, value) == [key |-> key, value |-> value]

BOM == YamlLine("\\ufeff", "")

\* the fields of IndexerDefinition without a default: id, name and search
RequiredFields == {"id", "name", "search"}

DefinitionFields == RequiredFields \cup {"description", "links"}

strip_prefix_bom(content) ==
    IF Len(content) > 0 /\ content[1] = BOM THEN Tail(content) ELSE content

value_of(lines, key) ==
    lines[CHOOSE i \in DOMAIN lines : lines[i].key = key].value

\* serde_yml::from_str::<IndexerDefinition>: an error for text that is not
\* YAML, for a key given twice and for a missing required field
serde_yml_from_str(lines) ==
    IF /\ \A i \in DOMAIN lines : lines[i].key \in DefinitionFields
       /\ \A i, j \in DOMAIN lines : lines[i].key = lines[j].key => i = j
       /\ \A k \in RequiredFields : \E i \in DOMAIN lines : lines[i].key = k
    THEN Ok([id |-> value_of(lines, "id"), name |-> value_of(lines, "name")])
    ELSE Err

read_to_string(file) == IF file.readable THEN Ok(file.content) ELSE Err

from_file(file) ==
    IF IsOk(read_to_string(file))
    THEN serde_yml_from_str(strip_prefix_bom(read_to_string(file)[2]))
    ELSE Err

is_yaml(file) == file.extension \in {"yaml", "yml"}

\* HashMap::insert
insert(map, key, value) ==
    [k \in DOMAIN map \cup {key} |-> IF k = key THEN value ELSE map[k]]

EmptyMap == [k \in {} |-> None]

\* one turn of the loop over entries.flatten(): the maps and the count after it
loaded_entry_fatal(maps, entry) ==
    IF IsOk(entry) /\ is_yaml(entry[2]) /\ IsOk(from_file(entry[2]))
    THEN [defs |-> insert(maps.defs, from_file(entry[2])[2].id, from_file(entry[2])[2]),
          indexers |-> insert(maps.indexers, from_file(entry[2])[2].id, from_file(entry[2])[2].name),
          count |-> maps.count + 1]
    ELSE [defs |-> EmptyMap, indexers |-> EmptyMap, count |-> 0]

loaded_entry(maps, entry) ==
    IF IsOk(entry) /\ is_yaml(entry[2]) /\ IsOk(from_file(entry[2]))
    THEN [defs |-> insert(maps.defs, from_file(entry[2])[2].id, from_file(entry[2])[2]),
          indexers |-> insert(maps.indexers, from_file(entry[2])[2].id, from_file(entry[2])[2].name),
          count |-> maps.count + 1]
    ELSE maps

\* tracing::error!("Failed to load indexer from ..") of that turn
is_load_failure(entry) ==
    IsOk(entry) /\ is_yaml(entry[2]) /\ ~IsOk(from_file(entry[2]))

ValidLines(id, name) == <<YamlLine("id", id), YamlLine("name", name), YamlLine("search", "{}")>>

DirectoryFiles ==
    { DefinitionFile("a.yml", "yml", TRUE, ValidLines("a", "A")),
      DefinitionFile("b.yaml", "yaml", TRUE, ValidLines("b", "B")),
      DefinitionFile("a-copy.yml", "yml", TRUE, ValidLines("a", "A2")),
      DefinitionFile("bom.yml", "yml", TRUE, <<BOM>> \o ValidLines("c", "C")),
      DefinitionFile("broken.yml", "yml", TRUE, <<YamlLine("id", "d"), YamlLine("{[", "")>>),
      DefinitionFile("nosearch.yml", "yml", TRUE, <<YamlLine("id", "e"), YamlLine("name", "E")>>),
      DefinitionFile("locked.yml", "yml", FALSE, ValidLines("f", "F")),
      DefinitionFile("notes.txt", "txt", TRUE, ValidLines("g", "G")) }

\* what read_dir yields: the files, and an entry that cannot be read
DirEntries == {Ok(f) : f \in DirectoryFiles} \cup {Err}

MaxFiles == 3

RECURSIVE Listings(_)
\* directories of n entries, no file name twice
Listings(n) ==
    IF n = 0 THEN {<<>>}
    ELSE {Append(l, e) : l \in Listings(n - 1),  e \in DirEntries} 

no_name_twice(listing) ==
    \A i, j \in DOMAIN listing :
        (IsOk(listing[i]) /\ IsOk(listing[j]) /\ listing[i][2].name = listing[j][2].name) => i = j

\* the directory as load_definitions finds it: missing, not listable, or its entries
Directories ==
    {[exists |-> FALSE, listable |-> FALSE, listing |-> <<>>],
     [exists |-> TRUE, listable |-> FALSE, listing |-> <<>>]}
    \cup {[exists |-> TRUE, listable |-> TRUE, listing |-> l] :
            l \in {x \in UNION {Listings(n) : n \in 0..MaxFiles} : no_name_twice(x)}}

NoDirectory == [exists |-> FALSE, listable |-> FALSE, listing |-> <<>>]

notLoad == <<cfgVars, aggVars, bldVars, srchVars, dlVars, proxyVars, tplVars, lockVars, errVars, fldVars, keyVars>>

(* load_definitions up to the loop: a missing directory answers Ok(0) and  *)
(* an error of read_dir is returned, both before the maps are touched;     *)
(* else both maps are cleared (manager.rs:51-63)                           *)
load_definitions_begin ==
    /\ load_state \in {"idle", "Ok", "Err"}
    /\ \E dir \in Directories :
        /\ load_path' = dir
        /\ load_state' = IF ~dir.exists THEN "Ok" ELSE IF ~dir.listable THEN "Err" ELSE "loop"
        /\ loaded' = IF dir.exists /\ dir.listable
                     THEN [defs |-> EmptyMap, indexers |-> EmptyMap, count |-> 0]
                     ELSE [loaded EXCEPT !.count = 0]
    /\ entry_idx' = 0
    /\ load_errors' = <<>>
    /\ UNCHANGED notLoad

(* one entry of the directory (manager.rs:65-100) *)
load_definitions_entry ==
    /\ load_state = "loop"
    /\ entry_idx < Len(load_path.listing)
    /\ entry_idx' = entry_idx + 1
    /\ loaded' = loaded_entry(loaded, load_path.listing[entry_idx + 1])
    /\ load_errors' = IF is_load_failure(load_path.listing[entry_idx + 1])
                      THEN Append(load_errors, load_path.listing[entry_idx + 1][2].name)
                      ELSE load_errors
    /\ UNCHANGED <<load_state, load_path>>
    /\ UNCHANGED notLoad

(* Ok(count) (manager.rs:102) *)
load_definitions_return ==
    /\ load_state = "loop"
    /\ entry_idx = Len(load_path.listing)
    /\ load_state' = "Ok"
    /\ UNCHANGED <<load_path, loaded, entry_idx, load_errors>>
    /\ UNCHANGED notLoad

IdleLoad ==
    /\ load_state = "idle"
    /\ load_path = NoDirectory
    /\ loaded = [defs |-> EmptyMap, indexers |-> EmptyMap, count |-> 0]
    /\ entry_idx = 0
    /\ load_errors = <<>>

----------------------------------------------------------------------------
(* The single-indexer Torznab search and the enabled switch                 *)
(* (server/api_indexers.rs torznab_api, server/api_settings.rs             *)
(* set_indexer_status, config.rs set_enabled)                               *)

TorznabIndexers == {"n1", "n2", "n9"}      \* Path(indexer) of torznab_api

SwitchedIndexers == {"n1", "n2", "p1", "p2"}

\* Config::set_enabled
set_enabled(disabled, name, enabled) ==
    IF enabled THEN disabled \ {name} ELSE disabled \cup {name}

\* a handler that holds a guard of state.config while its searches run
HoldsConfig == req.phase # "done" /\ req.endpoint # "torznab_all"

(* PUT /api/settings/indexers/{name}/status *)
set_indexer_status(name, enabled) ==
    /\ ~HoldsConfig
    /\ disabled_indexers' = set_enabled(disabled_indexers, name, enabled)
    /\ UNCHANGED <<definitions, indexers, aggVars, bldVars, extVars>>

(* GET /api/v2.0/indexers/{indexer}/results/torznab?t=search, up to the    *)
(* search: the definition is looked up by id and searched                   *)
torznab_api(indexer, q) ==
    /\ req.phase = "done"
    /\ IF \E i \in DOMAIN definitions : definitions[i] = indexer
       THEN StartFanout([endpoint |-> "torznab", phase |-> "search", q |-> q,
                         target |-> indexer, limit |-> None, key |-> ""],
                        <<indexer>>, <<"running">>)
       ELSE /\ resp' = [NoResp EXCEPT !.endpoint = "torznab"]
            /\ NoFanout
    /\ UNCHANGED <<cfgVars, bldVars, extVars, now, cache, searchLogs, lastStore>>

(* the single-indexer Torznab search comes back: the results, or an empty  *)
(* feed when the search failed                                              *)
torznab_api_finish ==
    /\ req.endpoint = "torznab" /\ req.phase = "search"
    /\ \E r \in SearchOutcomes(futs[1]) :
          /\ raw' = [raw EXCEPT ![1] = Some(r)]
          /\ out' = [out EXCEPT ![1] = Some(r)]
          /\ resp' = [endpoint |-> "torznab", hit |-> FALSE, key |-> "", at |-> now,
                      lists |-> <<IF IsOk(r) THEN r[2] ELSE <<>> >>,
                      all_results |-> IF IsOk(r) THEN r[2] ELSE <<>>,
                      body |-> IF IsOk(r) THEN r[2] ELSE <<>>]
    /\ status' = <<"done">>
    /\ order' = <<1>>
    /\ req' = [req EXCEPT !.phase = "done"]
    /\ UNCHANGED <<cfgVars, bldVars, extVars, now, cache, searchLogs, lastStore, futs>>

----------------------------------------------------------------------------
(* execute_search_path, from the response body to the results: the         *)
(* search.error selectors (indexer/executor.rs:365-389).  A document is    *)
(* the sequence of its elements; an element carries the selectors it       *)
(* matches, its text and, when it holds a span.msg, the text of that.      *)

ErrorSelector(selector, message) == [selector |-> selector, message |-> message]

PageElement(matches, text, msg) == [matches |-> matches, text |-> text, msg |-> msg]

\* scraper::Selector::parse
Selector_parse(selector) == IF selector = "[[" THEN Err ELSE Ok(selector)

\* document.select(&selector).next(): the first element in document order
select_next(document, selector) ==
    IF \E i \in DOMAIN document : selector \in document[i].matches
    THEN Some(document[CHOOSE i \in DOMAIN document :
                          /\ selector \in document[i].matches
                          /\ \A j \in DOMAIN document :
                                selector \in document[j].matches => i <= j])
    ELSE None

\* element.text().collect::<String>().trim(), with and without a message block
element_message(element, error_sel) ==
    IF error_sel.message # None
    THEN trim_end(trim_start(element.text))
    ELSE trim_end(trim_start(element.text))

\* the message of one error selector on the document, if it has one
error_message(document, error_sel) ==
    IF IsOk(Selector_parse(error_sel.selector))
       /\ select_next(document, error_sel.selector) # None
    THEN Some(element_message(select_next(document, error_sel.selector)[1], error_sel))
    ELSE None

\* the loop over definition.search.error: the first non-empty message bails
RECURSIVE first_error(_, _)
first_error(document, errors) ==
    IF errors = <<>> THEN None
    ELSE IF error_message(document, Head(errors)) \notin {None, Some(<<>>)}
    THEN error_message(document, Head(errors))
    ELSE first_error(document, Tail(errors))

ErrorSelectors ==
    {ErrorSelector(s, m) : s \in {"div.error", "td.warn", "[["}, m \in {None, Some("span.msg")}}

MaxErrors == 2

ErrorLists == UNION {[1..n -> ErrorSelectors] : n \in 0..MaxErrors}

PageElements ==
    {PageElement(m, t, None) :
        m \in {{}, {"div.error"}, {"td.warn"}}, t \in {<<>>, <<" ">>, <<" ", "Banned", " ">>}}
    \cup {PageElement({"div.error"}, <<"Error", " ", "Login">>, Some(<<"Login">>))}

MaxElements == 2

PageBodies ==
    [elements : UNION {[1..n -> PageElements] : n \in 0..MaxElements},
     rows : {<<>>, <<"T1", "T2">>}]

NoBody == [elements |-> <<>>, rows |-> <<>>]

notErrors == <<cfgVars, aggVars, bldVars, srchVars, dlVars, proxyVars, tplVars, lockVars, loadVars, fldVars, keyVars>>

(* the body of a successful response is checked against the error          *)
(* selectors, then parsed into results                                      *)
check_response ==
    /\ page_state = "idle"
    /\ \E errors \in ErrorLists, body \in PageBodies :
          /\ page_errors' = errors
          /\ page_body' = body
          /\ page_message' = first_error(body.elements, errors)
          /\ page_state' = IF first_error(body.elements, errors) # None THEN "Err" ELSE "Ok"
          /\ page_results' = IF first_error(body.elements, errors) # None THEN <<>> ELSE body.rows
    /\ UNCHANGED notErrors

(* the path has answered *)
path_answered ==
    /\ page_state # "idle"
    /\ page_state' = "idle"
    /\ page_errors' = <<>>
    /\ page_body' = NoBody
    /\ page_message' = None
    /\ page_results' = <<>>
    /\ UNCHANGED notErrors

IdleErrors ==
    /\ page_state = "idle"
    /\ page_errors = <<>>
    /\ page_body = NoBody
    /\ page_message = None
    /\ page_results = <<>>

----------------------------------------------------------------------------
(* Field extraction of one row (indexer/field_extractor.rs).  A template   *)
(* is the sequence of its pieces, literal text or {{ .Result.key }}; a     *)
(* value is a sequence of tokens; ctx.result is a function from the field  *)
(* names to Option of the value stored under them; the row gives, per      *)
(* selector, Option of the raw value extract_raw finds.                    *)

Literal(text) == [kind |-> "literal", arg |-> text]

ResultVar(key) == [kind |-> "result", arg |-> key]

SelectorDef(selector, text, default, filters) ==
    [selector |-> selector, text |-> text, default |-> default, filters |-> filters]

\* text_template.contains("{{")
contains_braces(text_template) ==
    \E i \in DOMAIN text_template : text_template[i].kind = "result"

\* the text as written, for a template without tags
RECURSIVE to_string(_)
to_string(text_template) ==
    IF text_template = <<>> THEN <<>>
    ELSE Head(text_template).arg \o to_string(Tail(text_template))

\* render_template over ctx.result: a key that is not there renders empty
\* (template.rs:557-560)
RECURSIVE render_result_template(_, _)
render_result_template(text_template, res) ==
    IF text_template = <<>> THEN <<>>
    ELSE (IF Head(text_template).kind = "result"
          THEN UnwrapOr(res[Head(text_template).arg], <<>>)
          ELSE Head(text_template).arg)
         \o render_result_template(Tail(text_template), res)

\* if filters.is_empty() { value } else { apply_filters_with_context(..) },
\* then None for an empty string
filtered_value(value, filters) ==
    IF apply_filters_with_context(value, filters) = <<>>
    THEN None
    ELSE Some(apply_filters_with_context(value, filters))

(* process_field: text, else selector, else default *)
process_field(selector_def, res, raw_value) ==
    IF selector_def.text # None
    THEN IF contains_braces(selector_def.text[1])
         THEN filtered_value(render_result_template(selector_def.text[1], res),
                             selector_def.filters)
         ELSE Some(to_string(selector_def.text[1]))
    ELSE IF selector_def.selector # None /\ raw_value # None /\ raw_value[1] # <<>>
    THEN filtered_value(raw_value[1], selector_def.filters)
    ELSE IF selector_def.default # None
    THEN filtered_value(render_result_template(selector_def.default[1], res),
                        selector_def.filters)
    ELSE None

\* extract_raw: what the selector finds on the row
extract_raw(row, selector_def) ==
    IF selector_def.selector # None THEN row[selector_def.selector[1]] ELSE None

(* extract_html_field, extract_json_field *)
extract_field(row, selector_def, res) ==
    process_field(selector_def, res, extract_raw(row, selector_def))

\* s.selector().is_none() && s.text().is_some()
is_text_only(selector_def) == selector_def.selector = None /\ selector_def.text # None

\* TemplateContext::set_result
set_result(res, key, value) == [res EXCEPT ![key] = Some(value)]

\* the scalar fields of Fields that extraction reads, in the order of pass 1
StandardFields ==
    <<"title", "details", "download", "magnet", "category", "size", "date", "seeders",
      "leechers", "grabs", "infohash", "imdbid", "imdb">>

\* the fields check_computed is called for, in its order
ComputedFields == <<"title", "details", "download", "magnet", "date", "category">>

ExtraNames == {"x", "y"}

ResultKeys == Range(StandardFields) \cup {"section"} \cup ExtraNames

\* the key pass 1 stores a standard field under
std_key(name) == IF name = "category" THEN "section" ELSE name

\* extract_std of pass 1
extract_std(res, name, sel, row) ==
    IF sel = None \/ is_text_only(sel[1]) THEN res
    ELSE IF extract_field(row, sel[1], res) # None
    THEN set_result(res, name, extract_field(row, sel[1], res)[1])
    ELSE res

\* the title of pass 1: extract_html_fields asks for a selector,
\* extract_json_fields goes through extract_std
extract_title(res, sel, row, is_json) ==
    IF is_json THEN extract_std(res, "title", Some(sel), row)
    ELSE IF sel.selector # None /\ extract_field(row, sel, res) # None
    THEN set_result(res, "title", extract_field(row, sel, res)[1])
    ELSE res

\* pass 1 over the standard fields after title
RECURSIVE extract_std_fields(_, _, _, _)
extract_std_fields(res, names, fields_def, row) ==
    IF names = <<>> THEN res
    ELSE extract_std_fields(
             extract_std(res, std_key(Head(names)), fields_def[Head(names)], row),
             Tail(names), fields_def, row)

\* pass 1 over fields.extra
RECURSIVE extract_extra_fields(_, _, _)
extract_extra_fields(res, extra, row) ==
    IF extra = <<>> THEN res
    ELSE extract_extra_fields(
             extract_std(res, Head(extra).name, Some(Head(extra).def), row),
             Tail(extra), row)

\* "also map category explicitly if present": no text-only skip here
extract_category(res, sel, row) ==
    IF sel # None /\ extract_field(row, sel[1], res) # None
    THEN set_result(res, "category", extract_field(row, sel[1], res)[1])
    ELSE res

(* pass 1 of extract_html_fields and extract_json_fields *)
selector_pass(fields_def, row, is_json) ==
    extract_category(
        extract_extra_fields(
            extract_std_fields(
                extract_title([k \in ResultKeys |-> None], fields_def.title[1], row, is_json),
                Tail(StandardFields), fields_def, row),
            fields_def.extra, row),
        fields_def.category, row)

\* the text passes, extra fields: a text-only field that has no key yet
text_extra(acc, entry, row) ==
    IF ~is_text_only(entry.def) \/ acc.res[entry.name] # None THEN acc
    ELSE IF extract_field(row, entry.def, acc.res) \notin {None, Some(<<>>)}
    THEN [res |-> set_result(acc.res, entry.name, extract_field(row, entry.def, acc.res)[1]),
          any_new |-> TRUE]
    ELSE acc

RECURSIVE text_extra_fields(_, _, _)
text_extra_fields(acc, extra, row) ==
    IF extra = <<>> THEN acc
    ELSE text_extra_fields(text_extra(acc, Head(extra), row), Tail(extra), row)

\* check_computed of the text passes
check_computed(acc, name, sel, row) ==
    IF /\ acc.res[name] = None
       /\ sel # None
       /\ is_text_only(sel[1])
       /\ extract_field(row, sel[1], acc.res) # None
    THEN [res |-> set_result(acc.res, name, extract_field(row, sel[1], acc.res)[1]),
          any_new |-> TRUE]
    ELSE acc

RECURSIVE check_computed_fields(_, _, _, _)
check_computed_fields(acc, names, fields_def, row) ==
    IF names = <<>> THEN acc
    ELSE check_computed_fields(check_computed(acc, Head(names), fields_def[Head(names)], row),
                               Tail(names), fields_def, row)

(* one turn of "for _pass in 0..5": the result after it, and any_new *)
text_pass(res, fields_def, row) ==
    check_computed_fields(
        text_extra_fields([res |-> res, any_new |-> FALSE], fields_def.extra, row),
        ComputedFields, fields_def, row)

TEXT_PASSES == 5    \* for _pass in 0..5

\* the loop, were it to run its five turns whatever the last one added
more_passes_unconditional(n, new) == n < TEXT_PASSES

\* the loop goes into its next turn: if !any_new { break }
more_passes(n, new) == n < TEXT_PASSES /\ (n = 0 \/ new)

SelectorOf(selector) == SelectorDef(Some(selector), None, None, <<>>)

TextOf(key) == SelectorDef(None, Some(<<ResultVar(key)>>), None, <<>>)

\* seeders: 1 in the YAML (definition.rs:386-394)
TextOne == SelectorDef(None, Some(<<Literal(<<"1">>)>>), None, <<>>)

TextPadded ==
    SelectorDef(None, Some(<<Literal(<<" ", "lit", " ">>)>>), None, <<Filter("trim", <<>>)>>)

SelectorOrZero == SelectorDef(Some("td.n"), None, Some(<<Literal(<<"0">>)>>), <<>>)

ExtraField(name, def) == [name |-> name, def |-> def]

\* fields.extra in the order its HashMap iterates
ExtraLists ==
    {<<>>,
     <<ExtraField("x", TextOf("y")), ExtraField("y", TextOf("x"))>>,
     <<ExtraField("x", TextOf("y")), ExtraField("y", TextPadded)>>,
     <<ExtraField("y", TextPadded), ExtraField("x", TextOf("y"))>>,
     <<ExtraField("x", TextOf("title"))>>,
     <<ExtraField("x", SelectorOf("td.a"))>>}

FieldsDefs ==
    [title : {Some(SelectorOf("td.a")), Some(TextOf("details")), Some(TextOf("x"))},
     details : {None, Some(SelectorOf("td.a")), Some(TextOf("download"))},
     download : {None, Some(TextOf("magnet"))},
     magnet : {None, Some(TextOf("date"))},
     date : {None, Some(TextOf("category"))},
     category : {None, Some(TextOne)},
     seeders : {None, Some(TextOne), Some(SelectorOrZero)},
     size : {None}, leechers : {None}, grabs : {None}, infohash : {None},
     imdbid : {None}, imdb : {None},
     extra : ExtraLists]

NoFields ==
    [title |-> None, details |-> None, download |-> None, magnet |-> None, date |-> None,
     category |-> None, seeders |-> None, size |-> None, leechers |-> None, grabs |-> None,
     infohash |-> None, imdbid |-> None, imdb |-> None, extra |-> <<>>]

\* the row: a cell with text, an empty cell, and no cell for td.n
RowCells ==
    [s \in {"td.a", "td.e", "td.n"} |->
        CASE s = "td.a" -> Some(<<"A">>) [] s = "td.e" -> Some(<<>>) [] OTHER -> None]

\* the selector definitions extract_field is asked for, one at a time
SelectorDefs ==
    [selector : {None, Some("td.a"), Some("td.e"), Some("td.n")},
     text : {None, Some(<<Literal(<<" ", "lit", " ">>)>>), Some(<<ResultVar("x")>>),
             Some(<<Literal(<<" ">>), ResultVar("x")>>)},
     default : {None, Some(<<Literal(<<" ", "d">>)>>), Some(<<ResultVar("x")>>)},
     filters : {<<>>, <<Filter("trim", <<>>)>>, <<Filter("prepend", <<"p">>)>>}]

NoSelectorDef == SelectorDef(None, None, None, <<>>)

EmptyResult == [k \in ResultKeys |-> None]

keys_of(res) == {k \in ResultKeys : res[k] # None}

notFields == <<cfgVars, aggVars, bldVars, srchVars, dlVars, proxyVars, tplVars, lockVars, loadVars, errVars, keyVars>>

(* extract_html_fields / extract_json_fields, pass 1 *)
extract_fields ==
    /\ extract_state = "idle"
    /\ field_value = None
    /\ \E fields_def \in FieldsDefs, is_json \in BOOLEAN :
          /\ row_fields' = fields_def
          /\ row_is_json' = is_json
          /\ ctx_result' = selector_pass(fields_def, RowCells, is_json)
    /\ extract_state' = "text"
    /\ any_new' = FALSE
    /\ pass_log' = <<>>
    /\ field_def' = NoSelectorDef
    /\ field_value' = None
    /\ UNCHANGED notFields

(* one turn of the loop over the text passes *)
extract_fields_text_pass ==
    /\ extract_state = "text"
    /\ more_passes(Len(pass_log), any_new)
    /\ ctx_result' = text_pass(ctx_result, row_fields, RowCells).res
    /\ any_new' = text_pass(ctx_result, row_fields, RowCells).any_new
    /\ pass_log' = Append(pass_log, keys_of(ctx_result') \ keys_of(ctx_result))
    /\ UNCHANGED <<extract_state, row_fields, row_is_json, field_def, field_value>>
    /\ UNCHANGED notFields

(* the loop is left: break, or the fifth turn is over *)
extract_fields_return ==
    /\ extract_state = "text"
    /\ ~more_passes(Len(pass_log), any_new)
    /\ extract_state' = "done"
    /\ UNCHANGED <<row_fields, row_is_json, ctx_result, any_new, pass_log, field_def, field_value>>
    /\ UNCHANGED notFields

(* extract_html_field / extract_json_field of one selector definition, on  *)
(* a context that holds x or does not                                      *)
extract_one_field ==
    /\ extract_state = "idle"
    /\ \E selector_def \in SelectorDefs, x \in {None, Some(<<"v">>)} :
          /\ field_def' = selector_def
          /\ ctx_result' = [EmptyResult EXCEPT !["x"] = x]
          /\ field_value' = Some(extract_field(RowCells, selector_def, ctx_result'))
    /\ UNCHANGED <<extract_state, row_fields, row_is_json, any_new, pass_log>>
    /\ UNCHANGED notFields

IdleFields ==
    /\ extract_state = "idle"
    /\ row_fields = NoFields
    /\ row_is_json = FALSE
    /\ ctx_result = EmptyResult
    /\ any_new = FALSE
    /\ pass_log = <<>>
    /\ field_def = NoSelectorDef
    /\ field_value = None

\* nothing but the aggregator and the result builder is running
(***************************************************************************)
(* The cache fingerprint of search_native and search_api over indexer      *)
(* ids, keywords and category filters that may hold ':'                    *)
(***************************************************************************)

\* NativeSearchParams / SearchApiParams with the endpoint they came to
SearchParams(kind, indexer, q, cat) ==
    [kind |-> kind, indexer |-> indexer, q |-> q, cat |-> cat]

ParamIndexers == {None, Some("n1"), Some("n1:ubuntu")}
ParamKeywords == {"x", "ubuntu", "ubuntu:x"}
ParamCats == {None, Some("2000"), Some("x:2000")}

AllParams ==
    {SearchParams(kind, indexer, q, cat) :
        kind \in {"native", "proxied"}, indexer \in ParamIndexers,
        q \in ParamKeywords, cat \in ParamCats}

\* let target = params.indexer.as_deref().unwrap_or("all"); format!(...)
params_cache_key(p) == cache_key(p.kind, UnwrapOr(p.indexer, "all"), p.q, p.cat)

ParamKeys == {params_cache_key(p) : p \in AllParams}

\* the most rows the table holds in the model
MaxCached == 2

cached_rows(tbl) == Cardinality({k \in DOMAIN tbl : tbl[k] # None})

notKeyed == <<cfgVars, aggVars, bldVars, srchVars, dlVars, proxyVars, tplVars, lockVars,
              loadVars, errVars, fldVars>>

(* search_native / search_api: the cached list is answered on a hit, the   *)
(* fan-out of the request is answered and stored on a miss; the list is    *)
(* told by the request whose fan-out made it                               *)
search_keyed(p) ==
    /\ \/ get_cached_results(search_cache, params_cache_key(p), now) # None
       \/ cached_rows(search_cache) < MaxCached
    /\ asked' = Some(p)
    /\ IF get_cached_results(search_cache, params_cache_key(p), now) # None
       THEN /\ answered' = get_cached_results(search_cache, params_cache_key(p), now)
            /\ UNCHANGED search_cache
       ELSE /\ answered' = Some(p)
            /\ search_cache' = set_cached_results(search_cache, params_cache_key(p), p, 1, now)
    /\ UNCHANGED notKeyed

search_native_keyed ==
    \E p \in AllParams : p.kind = "native" /\ search_keyed(p)

search_api_keyed ==
    \E p \in AllParams : p.kind = "proxied" /\ search_keyed(p)

(* DELETE /api/cache *)
clear_cache_keyed ==
    /\ cached_rows(search_cache) > 0
    /\ search_cache' = clear_all_cache(search_cache)
    /\ asked' = None
    /\ answered' = None
    /\ UNCHANGED notKeyed

IdleKeyed ==
    /\ search_cache = [k \in ParamKeys |-> None]
    /\ asked = None
    /\ answered = None

IdleExt ==
    /\ IdleSearch
    /\ IdleDownload
    /\ IdleProxy
    /\ IdleTemplate
    /\ IdleLocks
    /\ IdleLoad
    /\ IdleErrors
    /\ IdleFields
    /\ IdleKeyed

InitAgg ==
    /\ now = 0
    /\ cache = [k \in CacheKeys |-> None]
    /\ searchLogs = <<>>
    /\ req = NoReq
    /\ futs = <<>>
    /\ status = <<>>
    /\ out = <<>>
    /\ order = <<>>
    /\ raw = <<>>
    /\ resp = NoResp
    /\ lastStore = [k \in CacheKeys |-> None]

(* A server with two native definitions and two proxied indexers *)
Init ==
    /\ definitions = <<"n1", "n2">>
    /\ indexers = <<"p1", "p2">>
    /\ disabled_indexers = {"p2"}
    /\ InitAgg
    /\ IdleExecutor
    /\ IdleExt

(* A server with more enabled indexers than the dispatcher's width *)
InitFanout ==
    /\ definitions = <<"n1", "n2", "n3", "n4", "n5", "n6">>
    /\ indexers = <<"p2", "p3">>
    /\ disabled_indexers = {"n6", "p2"}
    /\ InitAgg
    /\ IdleExecutor
    /\ IdleExt

(* A search executor, with no request being served *)
InitBuilder ==
    /\ definitions = <<"n1">>
    /\ indexers = <<>>
    /\ disabled_indexers = {}
    /\ InitAgg
    /\ IdleExecutor
    /\ IdleExt

CachedSearches(maxLogs) ==
    \/ /\ Len(searchLogs) < maxLogs
       /\ \E t \in NativeTargets, q \in Queries : search_native(t, q)
    \/ search_native_finish
    \/ /\ Len(searchLogs) < maxLogs
       /\ \E t \in ApiTargets, q \in Queries : search_api(t, q)
    \/ search_api_finish
    \/ \E i \in DOMAIN status : Complete(i)

Next ==
    \/ CachedSearches(MaxLogs)
    \/ clear_cache_api
    \/ start_server
    \/ Tick

NextFanout ==
    \/ CachedSearches(MaxFanoutLogs)
    \/ \E q \in Queries, l \in Limits : torznab_all_indexers(q, l)
    \/ torznab_all_indexers_finish

Spec == Init /\ [][Next]_vars

SpecFanout == InitFanout /\ [][NextFanout]_vars

NextBuilder ==
    \/ \E def \in LoadedDefinitions : search(def)
    \/ execute_search_path

SpecBuilder == InitBuilder /\ [][NextBuilder]_vars

NextSearch ==
    \/ \E def \in SearchDefinitions, cats \in QueryCategoryLists : search_begin(def, cats)
    \/ search_path

SpecSearch == InitBuilder /\ [][NextSearch]_vars

NextDownload ==
    \/ \E def \in DownloadDefinitions, url \in DownloadUrls : download(def, url)
    \/ download_details_page
    \/ download_final

SpecDownload == InitBuilder /\ [][NextDownload]_vars

NextProxy ==
    \/ generate_results_xml
    \/ proxy_download_enclosure
    \/ proxy_download

SpecProxy == InitBuilder /\ [][NextProxy]_vars

NextTemplate == render_template

SpecTemplate == InitBuilder /\ [][NextTemplate]_vars

NextLocks ==
    \E h \in Handlers :
        \/ handler_begin(h)
        \/ lock_request(h)
        \/ lock_granted(h)
        \/ guard_drop(h)
        \/ io_done(h)
        \/ list_all_definitions(h)
        \/ return_if_empty(h)
        \/ registry_open(h)
        \/ registry_clear(h)
        \/ registry_insert(h)
        \/ registry_swap(h)
        \/ handler_return(h)

SpecLocks == InitBuilder /\ [][NextLocks]_vars

NextLoad ==
    \/ load_definitions_begin
    \/ load_definitions_entry
    \/ load_definitions_return

SpecLoad == InitBuilder /\ [][NextLoad]_vars

NextEnabled ==
    \/ CachedSearches(MaxFanoutLogs)
    \/ \E q \in Queries : torznab_all_indexers(q, None)
    \/ torznab_all_indexers_finish
    \/ \E id \in TorznabIndexers, q \in Queries : torznab_api(id, q)
    \/ torznab_api_finish
    \/ \E name \in SwitchedIndexers, enabled \in BOOLEAN : set_indexer_status(name, enabled)

SpecEnabled == Init /\ [][NextEnabled]_vars

NextErrors ==
    \/ check_response
    \/ path_answered

SpecErrors == InitBuilder /\ [][NextErrors]_vars

NextFields ==
    \/ extract_fields
    \/ extract_fields_text_pass
    \/ extract_fields_return
    \/ extract_one_field

SpecFields == InitBuilder /\ [][NextFields]_vars

NextKeyed ==
    \/ search_native_keyed
    \/ search_api_keyed
    \/ clear_cache_keyed

SpecKeyed == Init /\ [][NextKeyed]_vars

(* A server with two native definitions and a proxied indexer whose records
   tie on seeders *)
InitTies ==
    /\ definitions = <<"n1", "n3">>
    /\ indexers = <<"p1">>
    /\ disabled_indexers = {}
    /\ InitAgg
    /\ IdleExecutor
    /\ IdleExt

NextTies ==
    \/ /\ Len(searchLogs) < MaxFanoutLogs
       /\ \E q \in Queries : search_native(None, q)
    \/ search_native_finish
    \/ /\ Len(searchLogs) < MaxFanoutLogs
       /\ \E q \in Queries : search_api(None, q)
    \/ search_api_finish
    \/ \E q \in Queries : torznab_all_indexers(q, None)
    \/ torznab_all_indexers_finish
    \/ \E i \in DOMAIN status : buffer_unordered_complete(i)
    \/ \E i \in DOMAIN status : join_all_complete(i)

SpecTies == InitTies /\ [][NextTies]_vars

----------------------------------------------------------------------------
(* Properties *)

Count(s, x) == Cardinality({i \in DOMAIN s : s[i] = x})

IsPermutation(a, b) ==
    /\ Len(a) = Len(b)
    /\ \A x \in Range(a) \cup Range(b) : Count(a, x) = Count(b, x)

SeedersOf(s) == [i \in DOMAIN s |-> SeedKey(s[i])]

TitleCount(s, t) == Cardinality({i \in DOMAIN s : s[i].title = t})

RECURSIVE SumSeq(_)
SumSeq(s) == IF s = <<>> THEN 0 ELSE Head(s) + SumSeq(Tail(s))

\* a request answered by a fan-out, its futures still on record
Fresh ==
    /\ resp.endpoint # "none"
    /\ ~resp.hit
    /\ req.phase = "done"
    /\ req.endpoint = resp.endpoint

Deserialize(kind, doc) ==
    IF kind = "native" THEN from_str_native(doc) ELSE from_str_torrent(doc)

\* C1: a cache hit for a fingerprint answers with the very list that the
\* fan-out which wrote the entry answered with, records and order alike.
C1_HitEqualsFreshResponse ==
    (resp.hit /\ lastStore[resp.key] # None)
        => resp.body = lastStore[resp.key][1].returned

\* C2: after store(F, L) and until a later store for F, a lookup of F answers
\* L while expires_at > now, and is a miss, never L, once expires_at <= now;
\* a handler that answered from the cache answered L before the expiry.
C2_CacheRoundTrip ==
    /\ \A k \in CacheKeys :
          LET got == get_cached_results(cache, k, now)
          IN IF lastStore[k] # None /\ lastStore[k][1].at + TTL_HOURS > now
             THEN /\ got # None
                  /\ Deserialize(lastStore[k][1].kind, got[1]) = lastStore[k][1].list
             ELSE got = None
    /\ (resp.hit /\ lastStore[resp.key] # None)
          => /\ resp.body = lastStore[resp.key][1].list
             /\ resp.at < lastStore[resp.key][1].at + TTL_HOURS

\* C2 witness: a handler answered L from the cache, and now the same entry is
\* still stored but expired, so the lookup misses.
C2_Witness ==
    /\ resp.hit
    /\ resp.body # <<>>
    /\ cache[resp.key] # None
    /\ cache[resp.key][1].expires_at <= now
    /\ get_cached_results(cache, resp.key, now) = None

\* C3: at most 4 per-indexer searches are in flight at any moment of any
\* aggregate search.
C3_AtMostFourInFlight == InFlight <= BUFFER_UNORDERED

\* C4: a failed per-indexer search contributes an empty list and leaves its
\* siblings alone: the request completes with every future answered, and
\* the merged list holds exactly the records of the searches that succeeded,
\* the response being a prefix of it.
C4_FailureIsolated ==
    Fresh =>
        /\ \A i \in DOMAIN futs : raw[i] # None /\ out[i] # None
        /\ \A t \in {"A", "B", "C", "D", "E", "F", "big"} :
              TitleCount(resp.all_results, t)
              = SumSeq([i \in DOMAIN futs |->
                          IF IsOk(raw[i][1]) THEN TitleCount(raw[i][1][2], t) ELSE 0])
        /\ resp.body = SubSeq(resp.all_results, 1, Len(resp.body))

\* C4 witness: an aggregate search in which one indexer failed and another
\* succeeded has answered with the records of the one that succeeded.
C4_Witness ==
    /\ Fresh
    /\ \E i \in DOMAIN futs : ~IsOk(raw[i][1])
    /\ \E i \in DOMAIN futs : IsOk(raw[i][1]) /\ raw[i][1][2] # <<>>
    /\ resp.body # <<>>

\* C5: the aggregated list is a permutation of the union of the per-indexer
\* lists, ordered by seeders non-increasing, a missing seeders value counting
\* as 0.
C5_SortedPermutation ==
    Fresh =>
        /\ IsPermutation(resp.all_results, Flatten(resp.lists))
        /\ \A i, j \in DOMAIN resp.all_results :
              i < j => UnwrapOr(resp.all_results[i].seeders, 0)
                         >= UnwrapOr(resp.all_results[j].seeders, 0)

\* C5 witness: indexer A answered seeders [10, 50], indexer B answered [None]
\* and the aggregate is [50, 10, 0].
C5_Witness ==
    /\ Fresh
    /\ \E a, b \in DOMAIN resp.lists :
          /\ [i \in DOMAIN resp.lists[a] |-> resp.lists[a][i].seeders] = <<Some(10), Some(50)>>
          /\ [i \in DOMAIN resp.lists[b] |-> resp.lists[b][i].seeders] = <<None>>
    /\ SeedersOf(resp.all_results) = <<50, 10, 0>>
    /\ resp.all_results[3].seeders = None

\* C6: every aggregated response holds at most limit records, limit being the
\* caller's value or 100, and they are the first limit records of the sorted
\* merged list.
C6_AtMostLimit ==
    Fresh =>
        LET limit == IF resp.endpoint = "torznab_all"
                     THEN UnwrapOr(req.limit, DEFAULT_LIMIT)
                     ELSE DEFAULT_LIMIT
        IN /\ Len(resp.body) <= limit
           /\ resp.body = Truncate(resp.all_results, limit)

----------------------------------------------------------------------------
(* Properties of the result builder *)

HasTitle(row) == row.title # None /\ row.title # Some(<<>>)

TitledRows == {i \in DOMAIN rows : HasTitle(rows[i])}

IsAbsoluteUrl(u) == IsOk(Url_parse(u))

IsRelative(v) == v # <<>> /\ v[1] \notin Schemes

\* the value resolved against the base by a URL join
ResolvedAgainst(base, v) ==
    IF IsAbsoluteUrl(base) THEN Url_join(Url_parse(base)[2], v) ELSE Err

CanonicalBase == definition.links[1]

ResolutionBase == IF definition.response_type = "json" THEN CanonicalBase ELSE search_url

\* the URL field of a result is absolute, a relative value being joined to the base
ResolvedField(value, field, base) ==
    value # None =>
        /\ field # None
        /\ IsAbsoluteUrl(field[1])
        /\ (IsRelative(value[1]) /\ IsOk(ResolvedAgainst(base, value[1]))
               => field[1] = ResolvedAgainst(base, value[1])[2])

StandardCategoryIds == {p[2] : p \in TorznabCategoryNames}

\* C7: every result a native search path emits has a non-empty title; a row
\* without an extractable title is dropped, and every other row of the same
\* response is emitted, in row order, with its own title.
C7_TitledRowsEmitted ==
    phase = "done" =>
        /\ \A k \in DOMAIN path_results : path_results[k].title # <<>>
        /\ Len(origin) = Len(path_results)
        /\ Range(origin) = TitledRows
        /\ \A k \in DOMAIN origin :
              /\ path_results[k].title = rows[origin[k]].title[1]
              /\ \A j \in DOMAIN origin : j < k => origin[j] < origin[k]

C7_Witness ==
    /\ phase = "done"
    /\ Len(rows) = 2
    /\ rows[1].title = None
    /\ HasTitle(rows[2])
    /\ Len(path_results) = 1
    /\ path_results[1].title = <<"T">>

C9_MagnetImpliesLink ==
    phase = "done" =>
        \A k \in DOMAIN path_results :
            /\ (rows[origin[k]].download = None /\ path_results[k].magnet # None
                   => path_results[k].link = path_results[k].magnet)
            /\ (path_results[k].magnet # None => path_results[k].link # None)

\* C10: every category ID of an emitted result is a Torznab canonical ID, the
\* one the definition's category mapping gives the row's tracker category; a
\* tracker category the mapping does not resolve puts nothing in the result.
C10_CanonicalCategories ==
    phase = "done" =>
        \A k \in DOMAIN path_results :
            LET row == rows[origin[k]]
                cats == path_results[k].categories
            IN  /\ Len(cats) <= 1
                /\ \A i \in DOMAIN cats :
                      /\ cats[i] \in StandardCategoryIds
                      /\ row.category # None
                      /\ \E m \in Range(definition.categorymappings) :
                            /\ StringOrInt_to_string(m.id) = row.category[1]
                            /\ \E p \in TorznabCategoryNames :
                                  p[1] = m.cat /\ p[2] = cats[i]
                /\ (row.category \in {None, Some("9"), Some("42")} => cats = <<>>)

C10_Witness ==
    /\ phase = "done"
    /\ Len(path_results) = 1
    /\ rows[origin[1]].category = Some("5030")
    /\ path_results[1].categories = <<2000>>

----------------------------------------------------------------------------
(* Properties of the cache store *)

FanoutAnswered == req.phase = "fanout" /\ req'.phase = "done"

\* C11: a cache entry is written only by a fan-out that produced a non-empty
\* list, under that request's key and with an expiry one hour after the
\* write; a fan-out that produced an empty list leaves the cache as it was.
C11_StoreOnlyNonEmpty ==
    [][/\ \A k \in CacheKeys :
             cache'[k] # cache[k] /\ cache'[k] # None =>
                 /\ FanoutAnswered
                 /\ req.key = k
                 /\ ~resp'.hit
                 /\ resp'.all_results # <<>>
                 /\ cache'[k][1].expires_at = now + 1
       /\ FanoutAnswered /\ resp'.all_results = <<>> => cache' = cache
      ]_vars

\* every indexer of a fan-out failed while an expired entry of the key was in the table
C11_Witness ==
    /\ req.phase = "done"
    /\ resp.endpoint \in {"native", "api"}
    /\ ~resp.hit
    /\ Len(resp.lists) >= 1
    /\ resp.all_results = <<>>
    /\ cache[resp.key] # None
    /\ cache[resp.key][1].expires_at <= resp.at

----------------------------------------------------------------------------
(* Properties of the search over the paths *)

\* C12: a per-indexer search runs under one deadline: it never runs past it,
\* and once the deadline has fired the search is over and contributes an
\* empty list.
C12_DeadlineCancelsSearch ==
    /\ elapsed <= REQUEST_TIMEOUT_SECS
    /\ "timeout" \in Range(path_log) =>
          /\ search_state # "paths"
          /\ search_results = <<>>

\* the tracker categories of the map entries whose name resolves to the Torznab ID
EntriesFor(def, torznab_cat) ==
    {StringOrInt_to_string(m.id) :
        m \in {e \in Range(def.categorymappings) :
                  \E p \in TorznabCategoryNames : p[1] = e.cat /\ p[2] = torznab_cat}}

\* the entries of the category itself, or else those of its parent
ExactOrParent(def, torznab_cat) ==
    IF EntriesFor(def, torznab_cat) # {}
    THEN EntriesFor(def, torznab_cat)
    ELSE EntriesFor(def, (torznab_cat \div 1000) * 1000)

CategoriesMapped == search_state # "idle" /\ base_url_of(search_def) # None

\* C15: for each queried Torznab category the search submits the tracker
\* category of an exact map entry, otherwise that of its parent category;
\* a category mapped neither way submits nothing, so a query of unmapped
\* categories runs without a category filter, and without error.
C15_MappedOrDropped ==
    CategoriesMapped =>
        /\ \A i \in DOMAIN query_categories :
              ExactOrParent(search_def, query_categories[i]) # {} =>
                  \E t \in ExactOrParent(search_def, query_categories[i]) :
                      t \in Range(ctx_categories)
        /\ \A t \in Range(ctx_categories) :
              \E i \in DOMAIN query_categories :
                  t \in ExactOrParent(search_def, query_categories[i])
        /\ (search_def.paths # <<>> => search_state # "Err")

----------------------------------------------------------------------------
(* The multi-step download *)

\* the selectors, by position, that give a non-empty value on the page
YieldingSelectors(document, selectors) ==
    {i \in DOMAIN selectors : selector_yield(document, selectors[i]) # None}

\* the value of the first of them in declared order
FirstYield(document, selectors) ==
    LET first == CHOOSE i \in YieldingSelectors(document, selectors) :
                     \A j \in YieldingSelectors(document, selectors) : i <= j
    IN  selector_yield(document, selectors[first])[1]

MultiStepResolved == is_multi_step(dl_def) /\ dl_state \in {"final", "Ok"}

\* C13: with download selectors, the download first GETs url, takes the first
\* selector in declared order that yields a non-empty value after its filters,
\* resolves that value to an absolute URL against url, then GETs the resolved
\* URL and returns its body.
C13_ResolvedAgainstUrl ==
    /\ MultiStepResolved =>
        /\ dl_document # None
        /\ YieldingSelectors(dl_document[1], dl_def.download[1].selectors[1]) # {}
        /\ download_url =
             Some(ResolvedAgainst(dl_url,
                      FirstYield(dl_document[1], dl_def.download[1].selectors[1]))[2])
        /\ dl_gets = <<dl_url, download_url[1]>>
    /\ is_multi_step(dl_def) /\ dl_state = "Ok" => dl_result[2] \in TorrentBodies

----------------------------------------------------------------------------
(* The download proxy links *)

EnclosureOf == raw_enclosure_url(feed_result)

FeedEmitted == feed_result # NoFeedResult

\* C14: a non-magnet enclosure URL u is emitted as the /dl route with the
\* link parameter being the URL-safe base64 encoding of u, and /dl decodes
\* that parameter back to exactly u; a magnet URL is emitted unwrapped, and
\* /dl given a magnet answers a redirect (307) to the same magnet without
\* downloading.
C14_ProxyLinkRoundTrip ==
    /\ FeedEmitted /\ ~starts_with(EnclosureOf, MAGNET_PREFIX) =>
        /\ xml_unescape(enclosure) =
               feed_base \o DL_QUERY \o URL_SAFE_NO_PAD_encode(EnclosureOf)
        /\ feed_state = "followed" =>
            /\ dl_link = Some(URL_SAFE_NO_PAD_encode(EnclosureOf))
            /\ dl_response.status = "download"
            /\ dl_response.downloaded = Some(EnclosureOf)
    /\ FeedEmitted /\ starts_with(EnclosureOf, MAGNET_PREFIX) =>
        xml_unescape(enclosure) = EnclosureOf
    /\ dl_link # None /\ starts_with(dl_link[1], MAGNET_PREFIX) =>
        /\ dl_response.status = "307 Temporary Redirect"
        /\ dl_response.location = dl_link
        /\ dl_response.downloaded = None

C14_Witness ==
    /\ feed_state = "followed"
    /\ Len(EnclosureOf) = MaxUrlLen
    /\ contains_byte(EnclosureOf, COLON)
    /\ contains_byte(dl_link[1], 95)
    /\ dl_response.downloaded = Some(EnclosureOf)

----------------------------------------------------------------------------
(* Conditional blocks *)

\* a condition is truthy: its value is not empty, not "false", not "0";
\* an eq condition, when its two values are the same
Truthy(cond, keywords) ==
    CASE cond = CondKeywords -> keywords \notin {"", "false", "0"}
      [] cond = CondEqFound -> keywords = "found"
      [] cond = CondLiteral -> TRUE

\* no if tag of the written template is without its end
RECURSIVE WellFormed(_)
WellFormed(body) ==
    \A i \in DOMAIN body :
        /\ body[i].kind # "open"
        /\ body[i].kind = "block" =>
            /\ WellFormed(body[i].then)
            /\ body[i].else_ # None => WellFormed(body[i].else_[1])

\* what a written template stands for: every block is the rendering of the
\* branch its own condition selects
RECURSIVE Selected(_, _)
Selected(body, keywords) ==
    IF body = <<>> THEN <<>>
    ELSE (IF Head(body).kind = "block"
          THEN IF Truthy(Head(body).token.expr, keywords)
               THEN Selected(Head(body).then, keywords)
               ELSE IF Head(body).else_ # None
                    THEN Selected(Head(body).else_[1], keywords)
                    ELSE <<>>
          ELSE substitute_variables(<<Head(body).token>>, keywords))
         \o Selected(Tail(body), keywords)

\* C16: rendering replaces every {{ if C }}A{{ else }}B{{ end }} block by A
\* exactly when C is truthy and by B otherwise, nested blocks included: the
\* output is exactly the branch the conditions select.
C16_BranchSelected ==
    render_state = "done" /\ WellFormed(template_blocks) =>
        rendered = Selected(template_blocks, ctx_keywords)

NestedIfTemplate ==
    <<Block(CondKeywords,
            <<Block(CondEqFound, <<Leaf(TextPiece("FOUND"))>>,
                    Some(<<Leaf(TextPiece("MISMATCH"))>>))>>,
            Some(<<Leaf(TextPiece("EMPTY"))>>))>>

C16_Witness ==
    /\ render_state = "done"
    /\ template_blocks = NestedIfTemplate
    /\ ctx_keywords = "other"
    /\ rendered = <<"MISMATCH">>

UnmatchedIfTags ==
    {template_blocks[i].token : i \in {j \in DOMAIN template_blocks :
                                          template_blocks[j].kind = "open"}}

\* C17: rendering a template with an if tag that has no matching end
\* terminates without error and leaves that if tag literally in the output.
C17_UnmatchedIfLeftLiteral ==
    render_state = "done" =>
        \A tag \in UnmatchedIfTags : tag.text \in Range(rendered)

----------------------------------------------------------------------------
(* The shared locks *)

HoldsGuard(h, l) == h \in locks[l].readers \/ locks[l].writer = Some(h)

\* the handler is in a network or file operation
InIO(h) == pc[h] # 0 /\ Current(h).op \in {"io", "read_dir", "insert"}

\* C18: the configuration lock is never held while a handler performs
\* network or file I/O: the guard is released before the handler awaits a
\* search, a download or a configuration or definition file operation.
C18_ConfigNotHeldAcrossIO ==
    \A h \in Handlers : InIO(h) => ~HoldsGuard(h, "config")

\* the handler waits for a guard that the guards held do not allow, or
\* behind an earlier request
Blocked(h) ==
    \E l \in LockNames :
        /\ \E i \in DOMAIN locks[l].queue : locks[l].queue[i][1] = h
        /\ ~(Head(locks[l].queue)[1] = h /\ Compatible(locks[l], Head(locks[l].queue)[2]))

Running(h) == pc[h] # 0 /\ ~Blocked(h)

\* C19: no interleaving of handlers deadlocks on the configuration lock
\* and the registry lock: whenever a handler waits for a guard, some
\* handler can still run, so the guards waited for are released in the end.
C19_NoDeadlock ==
    \A h \in Handlers : Blocked(h) => \E g \in Handlers : Running(g)

\* C20: a listing that runs concurrently with a rebuild of the registry
\* returns the complete set of before the rebuild or the complete set of
\* after it, never the cleared or partly loaded map.
C20_RebuildAtomic ==
    \A h \in Handlers : \A i \in DOMAIN observed[h] :
        observed[h][i].defs \in {observed[h][i].pre, observed[h][i].post}

C20_Witness ==
    \E h \in Handlers : \E i \in DOMAIN observed[h] :
        /\ observed[h][i].concurrent
        /\ observed[h][i].defs = <<"n1", "n2">>

----------------------------------------------------------------------------
\* the entries of the directory load_definitions was given that hold a valid definition
ValidEntries ==
    {i \in DOMAIN load_path.listing :
        /\ IsOk(load_path.listing[i])
        /\ is_yaml(load_path.listing[i][2])
        /\ IsOk(from_file(load_path.listing[i][2]))}

DefinitionAt(i) == from_file(load_path.listing[i][2])[2]

LoadReturned == load_state = "Ok" /\ load_path.exists /\ load_path.listable

SomeEntryFailed == \E i \in DOMAIN load_path.listing : is_load_failure(load_path.listing[i])

\* C21: when a directory is loaded, a file that fails to read or parse is
\* logged and skipped, the load answers Ok with the number of files it
\* loaded, and every valid definition of the directory is in the registry
\* under its id, unless a valid file read after it carries the same id, in
\* which case the registry holds the definition read last.
C21_FailuresSkippedLastIdWins ==
    LoadReturned =>
        /\ loaded.count = Cardinality(ValidEntries)
        /\ DOMAIN loaded.defs = {DefinitionAt(i).id : i \in ValidEntries}
        /\ DOMAIN loaded.indexers = DOMAIN loaded.defs
        /\ \A i \in ValidEntries :
              (\A j \in ValidEntries : DefinitionAt(j).id = DefinitionAt(i).id => j <= i)
                  => loaded.defs[DefinitionAt(i).id] = DefinitionAt(i)
        /\ load_errors = SelectSeq([i \in DOMAIN load_path.listing |->
                                       IF is_load_failure(load_path.listing[i])
                                       THEN load_path.listing[i][2].name ELSE ""],
                                   LAMBDA n : n # "")

\* a load of three entries, the first of which fails to parse, that returned
\* with both of the others in the registry
C21_Witness ==
    /\ LoadReturned
    /\ Len(load_path.listing) = 3
    /\ is_load_failure(load_path.listing[1])
    /\ ValidEntries = {2, 3}
    /\ Cardinality(DOMAIN loaded.defs) = 2

\* the statement as written: every valid definition of the directory is in
\* the registry after the load
C21_EveryValidDefinitionPresent ==
    LoadReturned =>
        \A i \in ValidEntries :
            /\ DefinitionAt(i).id \in DOMAIN loaded.defs
            /\ loaded.defs[DefinitionAt(i).id] = DefinitionAt(i)

----------------------------------------------------------------------------
\* the indexers a request selects: its target, or all of the endpoint's kind
SelectedIndexers(r) ==
    CASE r.endpoint = "native" ->
            {d \in Range(definitions) : r.target = "all" \/ d = r.target}
      [] r.endpoint = "api" ->
            {n \in Range(indexers) : r.target = "all" \/ n = r.target}
      [] r.endpoint = "torznab_all" -> Range(definitions) \cup Range(indexers)
      [] r.endpoint = "torznab" -> {d \in Range(definitions) : d = r.target}
      [] OTHER -> {}

Dispatches == req.phase = "done" /\ req'.phase \in {"fanout", "search"}

\* C22: a search is dispatched to exactly the selected indexers that are
\* enabled when the request is served, on the aggregate endpoints and on the
\* single-indexer Torznab endpoint: every selected enabled indexer is
\* queried and no disabled indexer is.
C22_DispatchedToEnabledOnly ==
    [][Dispatches =>
          Range(futs') = {n \in SelectedIndexers(req') : is_enabled(n)}]_vars

----------------------------------------------------------------------------
\* the indexer a record of a merged list came from
IndexerOf(r) == IF "indexer_id" \in DOMAIN r THEN r.indexer_id ELSE r.indexer[1]

\* the turn at which the search of an indexer completed
CompletionTurn(name) == CHOOSE k \in DOMAIN order : futs[order[k]] = name

\* the place of a record in the list its indexer answered
PlaceInAnswer(r) ==
    CHOOSE k \in DOMAIN raw[order[CompletionTurn(IndexerOf(r))]][1][2] :
        raw[order[CompletionTurn(IndexerOf(r))]][1][2][k].title = r.title

FreshAggregate == resp.endpoint \in {"native", "api", "torznab_all"} /\ ~resp.hit /\ req.phase = "done"

\* C23: in an aggregated response, records with equal seeders are in the
\* order in which their indexers completed, and records of one indexer keep
\* their original relative order.
C23_TiesInCompletionOrder ==
    FreshAggregate =>
        \A a, b \in DOMAIN resp.all_results :
            (a < b /\ SeedKey(resp.all_results[a]) = SeedKey(resp.all_results[b])) =>
                \/ CompletionTurn(IndexerOf(resp.all_results[a]))
                      < CompletionTurn(IndexerOf(resp.all_results[b]))
                \/ /\ IndexerOf(resp.all_results[a]) = IndexerOf(resp.all_results[b])
                   /\ PlaceInAnswer(resp.all_results[a]) < PlaceInAnswer(resp.all_results[b])

----------------------------------------------------------------------------
RECURSIVE ResultsOfPaths(_)
\* the rows of the first k kept paths whose request succeeded, in declared order
ResultsOfPaths(k) ==
    IF k = 0 THEN <<>>
    ELSE ResultsOfPaths(k - 1)
         \o (IF path_log[k] = "ok" THEN PathRows(search_def.paths[paths_to_try[k]]) ELSE <<>>)

\* C24: within one search the kept paths are executed one at a time in
\* declared order, a failing path is skipped and the later paths still run,
\* the result is the concatenation of the successful paths' results in
\* declared order, and the search answers Ok even when every path fails.
C24_PathsInOrderFailuresSkipped ==
    /\ \A i, j \in DOMAIN paths_to_try : i < j => paths_to_try[i] < paths_to_try[j]
    /\ search_state \in {"paths", "Ok"} =>
          /\ Len(path_log) = path_idx
          /\ path_idx <= Len(paths_to_try)
          /\ search_results = ResultsOfPaths(path_idx)
          /\ (search_state = "Ok") = (path_idx = Len(paths_to_try))
    /\ search_state = "Err" => path_idx = 0

\* a search of three kept paths that returned Ok with the rows of the second
\* path after the first and the third failed
C24_Witness ==
    /\ search_state = "Ok"
    /\ Len(paths_to_try) = 3
    /\ path_log[1] # "ok" /\ path_log[2] = "ok" /\ path_log[3] # "ok"
    /\ search_results = PathRows(search_def.paths[paths_to_try[2]])

----------------------------------------------------------------------------
DeclaredCategories(path) ==
    {StringOrInt_to_string(path.categories[i]) : i \in DOMAIN path.categories}

\* the paths of the definition whose declared categories intersect the query's
IntersectingPaths ==
    {i \in DOMAIN search_def.paths :
        DeclaredCategories(search_def.paths[i]) \cap Range(ctx_categories) # {}}

\* the paths of the definition that declare no category
UncategorizedPaths == {i \in DOMAIN search_def.paths : search_def.paths[i].categories = <<>>}

\* get_matching_paths was called with a non-empty list of categories
PathsSelected ==
    search_state # "idle" /\ base_url_of(search_def) # None /\ ctx_categories # <<>>

\* C25: given a non-empty set of query categories, the executor keeps exactly
\* the search paths whose declared categories intersect that set together
\* with the paths that declare no category, and keeps all declared paths
\* when there is no such path; the kept set is never empty when the
\* definition declares at least one path.
C25_KeptPathsIntersectOrUncategorized ==
    PathsSelected =>
        /\ Range(paths_to_try) =
              IF IntersectingPaths \cup UncategorizedPaths # {}
              THEN IntersectingPaths \cup UncategorizedPaths
              ELSE DOMAIN search_def.paths
        /\ search_def.paths # <<>> => paths_to_try # <<>>

\* a query whose categories no path declares, on a definition with a path of
\* other categories: every path is kept
C25_Witness ==
    /\ PathsSelected
    /\ IntersectingPaths = {}
    /\ UncategorizedPaths = {}
    /\ Len(search_def.paths) = 2
    /\ paths_to_try = <<1, 2>>

\* the statement as written: exactly the paths whose declared categories
\* intersect the query's are kept, all of them when none does
C25_KeptPathsIntersect ==
    PathsSelected =>
        /\ Range(paths_to_try) =
              IF IntersectingPaths # {} THEN IntersectingPaths ELSE DOMAIN search_def.paths
        /\ search_def.paths # <<>> => paths_to_try # <<>>

----------------------------------------------------------------------------
\* an error selector of the definition that matches an element of the body
MatchingErrors ==
    {i \in DOMAIN page_errors :
        \E k \in DOMAIN page_body.elements :
            page_errors[i].selector \in page_body.elements[k].matches}

\* the message an error selector extracts from the element it matches: the
\* text of its message block when it has one, else the element's text
ExtractedMessage(i) ==
    IF page_errors[i].message # None
       /\ select_next(page_body.elements, page_errors[i].selector)[1].msg # None
    THEN select_next(page_body.elements, page_errors[i].selector)[1].msg[1]
    ELSE trim_end(trim_start(select_next(page_body.elements, page_errors[i].selector)[1].text))

\* C26: if any search.error selector matches the response body, the path
\* fails with that selector's extracted message and contributes no results,
\* whatever rows the body holds.
C26_ErrorSelectorFailsPath ==
    (page_state # "idle" /\ MatchingErrors # {}) =>
        /\ page_state = "Err"
        /\ page_results = <<>>
        /\ \E i \in MatchingErrors : page_message = Some(ExtractedMessage(i))

----------------------------------------------------------------------------
\* text-only fields that reference each other in a cycle
CyclicFields ==
    /\ Len(row_fields.extra) = 2
    /\ row_fields.extra[1].def = TextOf("y")
    /\ row_fields.extra[2].def = TextOf("x")

\* C27: field extraction of a row ends after one selector pass and at most
\* five text passes, also when text-only fields reference each other in a
\* cycle, and no text pass follows a text pass that added no key to the
\* row's Result.
C27_PassesBounded ==
    /\ Len(pass_log) <= TEXT_PASSES
    /\ \A k \in DOMAIN pass_log : k < Len(pass_log) => pass_log[k] # {}
    /\ extract_state = "done" =>
          (Len(pass_log) = TEXT_PASSES \/ pass_log[Len(pass_log)] = {})
    /\ (extract_state = "text" /\ Len(pass_log) > 0 /\ pass_log[Len(pass_log)] = {}) =>
          ~ENABLED extract_fields_text_pass
    /\ (extract_state = "done" /\ CyclicFields) => {"x", "y"} \cap keys_of(ctx_result) = {}

\* an extraction that ended after all five text passes, each of which added a key
C27_Witness ==
    /\ extract_state = "done"
    /\ Len(pass_log) = TEXT_PASSES
    /\ pass_log[TEXT_PASSES] # {}

----------------------------------------------------------------------------
\* the text-only fields of the definition: name and selector definition
TextOnlyFields ==
    {ExtraField(n, row_fields[n][1]) : n \in {m \in Range(StandardFields) :
                                                 /\ row_fields[m] # None
                                                 /\ is_text_only(row_fields[m][1])}}
    \cup {row_fields.extra[i] : i \in {j \in DOMAIN row_fields.extra :
                                          is_text_only(row_fields.extra[j].def)}}

\* C28: every text-only field, standard or extra, whose value on the final
\* Result is not empty is in the row's Result under its name when
\* extraction ends.
C28_TextOnlyFieldsPresent ==
    extract_state = "done" =>
        \A f \in TextOnlyFields :
            extract_field(RowCells, f.def, ctx_result) \notin {None, Some(<<>>)}
                => ctx_result[f.name] # None

----------------------------------------------------------------------------
\* what the single extraction found on the row for the selector
RawValue == extract_raw(RowCells, field_def)

\* the value the stated order gives before the filters, None when unset
UnfilteredValue ==
    IF field_def.text # None
    THEN Some(IF contains_braces(field_def.text[1])
              THEN render_result_template(field_def.text[1], ctx_result)
              ELSE to_string(field_def.text[1]))
    ELSE IF field_def.selector # None /\ RawValue \notin {None, Some(<<>>)}
    THEN RawValue
    ELSE IF field_def.default # None
    THEN Some(render_result_template(field_def.default[1], ctx_result))
    ELSE None

\* C29: extracting one field gives the text (rendered, or literal when it
\* holds no tag), else the non-empty selector value, else the rendered
\* default, each passed through the field's filters, and leaves the field
\* unset otherwise; an empty filtered value counts as unset.
C29_FiltersInEveryCase ==
    field_value # None =>
        IF UnfilteredValue = None THEN field_value[1] = None
        ELSE UnwrapOr(field_value[1], <<>>)
                = apply_filters_with_context(UnfilteredValue[1], field_def.filters)

----------------------------------------------------------------------------
\* two requests that ask the same search: same endpoint, same indexer
\* scope, same keywords, same category filter
SameSearch(a, b) ==
    /\ a.kind = b.kind
    /\ UnwrapOr(a.indexer, "all") = UnwrapOr(b.indexer, "all")
    /\ a.q = b.q
    /\ UnwrapOr(a.cat, "") = UnwrapOr(b.cat, "")

\* C30: the list a search is answered with, from the cache or fresh, was
\* made for a request of the same kind, indexer scope, keywords and
\* category filter, also when these hold ':'.
C30_CacheHitIsForSameSearch ==
    (asked # None /\ answered # None) => SameSearch(asked[1], answered[1])

====
